---- MODULE Spec2Model ----
(***************************************************************************)
(* A model of the simeis game server (simeis-data / simeis-server).        *)
(*                                                                         *)
(* The module holds several specifications over disjoint groups of         *)
(* variables; each leaves the other groups unchanged:                      *)
(*   SpecFifo    the per-player event Fifo (syslog.rs)                     *)
(*   SpecLocks   lock acquisition of the request handlers and the driver   *)
(*   SpecCargo   ShipCargo::add_resource / unload (ship/cargo.rs)          *)
(*   SpecMarket  Market::update_prices (market.rs)                         *)
(*   Spec        one player's world: handlers and the driver tick          *)
(*   SpecTrade, SpecShipyard, SpecCrew, SpecMining                         *)
(*               the same world from other starting points, each with the  *)
(*               handlers of one area                                      *)
(*   SpecRegistry  Game::new_player run by concurrent handlers             *)
(*   SpecDriver  the loop of Game::start and Game::stop                    *)
(*   SpecProspect  extraction by ships of every module setup               *)
(*   SpecUnload  unloading a ship into a station, with the market          *)
(*   SpecExtraction, SpecDelivery, SpecFlight                              *)
(*               extraction, event delivery and flight under a fair driver *)
(*   SpecRace    a request in two steps interleaved with the driver        *)
(*   SpecIsolation  new_player and get_syslogs with the keys handed out    *)
(*                                                                         *)
(* f64 quantities are held in fixed point, in units chosen so that the     *)
(* arithmetic of the modelled runs is exact:                               *)
(*   distance   1/2 space unit          (speed is a multiple of 2.5/tick)  *)
(*   fuel       1/5000 fuel unit                                           *)
(*   hull       1/40 hull unit          (0.05 per space unit)              *)
(*   money      1/40 currency unit      (wages are billed per 50 ms tick)  *)
(*   quantity   1/10000 resource unit, usage and capacity 1/1000000        *)
(*   price      1/100 currency unit                                        *)
(***************************************************************************)
EXTENDS Integers, Sequences, FiniteSets, TLC

VARIABLES
    \* SpecFifo
    fifo,        \* the Fifo under test
    pushed,      \* number of values pushed so far; the n-th push pushes n
    shadow,      \* the values a bounded queue must hold, oldest first
    fifo_op,     \* the last operation applied to fifo
    fifo_out,    \* what the last pop / remove_all returned
    fifo_due,    \* shadow as it was before the last operation
    since,       \* pushes since the queue was new or drained, -1 once a pop intervened
    drained_k,   \* the value of since when remove_all was last called
    \* SpecLocks
    lk_writer,   \* lock -> the thread holding its write guard, or NoThread
    lk_readers,  \* lock -> thread -> number of read guards the thread holds
    th_kind,     \* thread -> the handler it runs, or "idle"
    th_prog,     \* thread -> the lock operations it still has to perform
    \* SpecCargo
    cargo,       \* the ShipCargo under test
    cargo_ops,   \* number of operations applied to it
    cargo_ret,   \* what the last add_resource / unload returned
    \* SpecMarket
    prices,      \* Market.prices, in 1/100 currency unit
    rolls,       \* number of update_prices calls so far
    \* Spec
    players,     \* Game.players: PlayerId -> Player
    stations,    \* the stations of the galaxy: StationId -> Station
    channel,     \* the mpsc channel from SyslogSend to SyslogRecv
    fifo_events, \* Game.fifo_events: PlayerId -> Fifo of events
    due,         \* PlayerId -> the events raised and not yet read, oldest first
    resp,        \* the reply to the last request
    ticks,       \* number of driver ticks so far
    cmds,        \* number of requests so far
    \* SpecRegistry
    registry,     \* Game.players as new_player fills it: PlayerId -> Player
    player_index, \* Game.player_index: PlayerKey -> PlayerId
    galaxy,       \* the GalaxyMap: [objects, discovered]
    np,           \* handler thread -> the new_player call it runs
    np_replies,   \* the replies of the finished new_player calls, oldest first
    generated,    \* sector start -> number of generate_sector runs on the sector
    \* SpecDriver
    driver_pc,    \* where the driver thread is in the loop of Game::start
    stop_chan,    \* the stop channel: the values sent and not yet received
    stop_ticks,   \* number of threadloop runs completed since the stop signal was sent
    \* SpecRace
    reqs          \* handler thread -> the request it runs, between get_player! and the write lock

fifoVars == <<fifo, pushed, shadow, fifo_op, fifo_out, fifo_due, since, drained_k>>

lockVars == <<lk_writer, lk_readers, th_kind, th_prog>>

cargoVars == <<cargo, cargo_ops, cargo_ret>>

marketVars == <<prices, rolls>>

gameVars == <<players, stations, channel, fifo_events, due, resp, ticks, cmds>>

registryVars == <<registry, player_index, galaxy, np, np_replies, generated>>

driverVars == <<driver_pc, stop_chan, stop_ticks>>

requestVars == <<reqs>>

vars == <<fifoVars, lockVars, cargoVars, marketVars, gameVars, registryVars, driverVars, requestVars>>

\* What the actions of each specification leave unchanged.
notFifoVars == <<lockVars, cargoVars, marketVars, gameVars, registryVars, driverVars, requestVars>>

notLockVars == <<fifoVars, cargoVars, marketVars, gameVars, registryVars, driverVars, requestVars>>

notCargoVars == <<fifoVars, lockVars, marketVars, gameVars, registryVars, driverVars, requestVars>>

notMarketVars == <<fifoVars, lockVars, cargoVars, gameVars, registryVars, driverVars, requestVars>>

\* The market belongs to the game as well: Spec changes marketVars too.
notGameVars == <<fifoVars, lockVars, cargoVars, registryVars, driverVars, requestVars>>

\* Option<T>: None is the empty sequence, Some(x) the sequence of x alone.
None == <<>>

Some(x) == <<x>>

(***************************************************************************)
(* syslog.rs: Fifo<T>                                                      *)
(***************************************************************************)
SYSLOG_FIFO_MAX_SIZE == 10

\* Number of pushes a run of SpecFifo may make.
MaxPushes == 13

FifoSlots == 0 .. (SYSLOG_FIFO_MAX_SIZE - 1)

Min(a, b) == IF a < b THEN a ELSE b

Max(a, b) == IF a > b THEN a ELSE b

FifoNew ==
    [list |-> [i \in FifoSlots |-> None], push_ind |-> 0, pop_ind |-> 0, len |-> 0]

\* A push that forgets to move pop_ind when it overwrites the oldest entry.
FifoPushNoAdvance(f, data) ==
    [list |-> [f.list EXCEPT ![f.push_ind] = Some(data)],
     push_ind |-> (f.push_ind + 1) % SYSLOG_FIFO_MAX_SIZE,
     pop_ind |-> f.pop_ind,
     len |-> Min(f.len + 1, SYSLOG_FIFO_MAX_SIZE)]

FifoPush(f, data) ==
    LET pop1 == IF f.len > 0 /\ f.push_ind = f.pop_ind
                THEN (f.pop_ind + 1) % SYSLOG_FIFO_MAX_SIZE
                ELSE f.pop_ind
    IN [list |-> [f.list EXCEPT ![f.push_ind] = Some(data)],
        push_ind |-> (f.push_ind + 1) % SYSLOG_FIFO_MAX_SIZE,
        pop_ind |-> pop1,
        len |-> Min(f.len + 1, SYSLOG_FIFO_MAX_SIZE)]

\* pop returns the record [fifo, data]; data is None on an empty queue.
FifoPop(f) ==
    IF f.len = 0
    THEN [fifo |-> f, data |-> None]
    ELSE [fifo |-> [list |-> [f.list EXCEPT ![f.pop_ind] = None],
                    push_ind |-> f.push_ind,
                    pop_ind |-> (f.pop_ind + 1) % SYSLOG_FIFO_MAX_SIZE,
                    len |-> f.len - 1],
          data |-> f.list[f.pop_ind]]

RECURSIVE FifoRemoveAllLoop(_, _)
FifoRemoveAllLoop(f, data) ==
    IF f.len > 0
    THEN LET r == FifoPop(f)
         IN IF r.data = None
            THEN FifoRemoveAllLoop(r.fifo, data)
            ELSE FifoRemoveAllLoop(r.fifo, Append(data, r.data[1]))
    ELSE [fifo |-> f, data |-> data]

FifoRemoveAll(f) == FifoRemoveAllLoop(f, <<>>)

\* The entries of f from pop_ind on, oldest first (a reading, not an operation).
FifoContents(f) ==
    [i \in 1 .. f.len |-> f.list[(f.pop_ind + i - 1) % SYSLOG_FIFO_MAX_SIZE][1]]

\* What a queue bounded by SYSLOG_FIFO_MAX_SIZE holds after one more value.
ShadowPush(s, v) ==
    IF Len(s) >= SYSLOG_FIFO_MAX_SIZE THEN Append(Tail(s), v) ELSE Append(s, v)

InitFifoVars ==
    /\ fifo = FifoNew
    /\ pushed = 0
    /\ shadow = <<>>
    /\ fifo_op = "new"
    /\ fifo_out = <<>>
    /\ fifo_due = <<>>
    /\ since = 0
    /\ drained_k = 0

Push ==
    /\ pushed < MaxPushes
    /\ fifo' = FifoPush(fifo, pushed + 1)
    /\ pushed' = pushed + 1
    /\ shadow' = ShadowPush(shadow, pushed + 1)
    /\ fifo_op' = "push"
    /\ fifo_out' = <<>>
    /\ fifo_due' = shadow
    /\ since' = IF since < 0 THEN since ELSE since + 1
    /\ UNCHANGED <<drained_k, notFifoVars>>

Pop ==
    /\ fifo' = FifoPop(fifo).fifo
    /\ fifo_out' = FifoPop(fifo).data
    /\ shadow' = IF shadow = <<>> THEN shadow ELSE Tail(shadow)
    /\ fifo_op' = "pop"
    /\ fifo_due' = shadow
    /\ since' = -1
    /\ UNCHANGED <<pushed, drained_k, notFifoVars>>

RemoveAll ==
    /\ fifo' = FifoRemoveAll(fifo).fifo
    /\ fifo_out' = FifoRemoveAll(fifo).data
    /\ shadow' = <<>>
    /\ fifo_op' = "remove_all"
    /\ fifo_due' = shadow
    /\ since' = 0
    /\ drained_k' = since
    /\ UNCHANGED <<pushed, notFifoVars>>

(***************************************************************************)
(* Lock acquisition of the request handlers (simeis-server/src/api.rs) and *)
(* of the driver (game.rs), for one player and that player's station.      *)
(* A program is the sequence of lock operations a handler performs:        *)
(*   <<"r", l>> take a read guard    <<"ur", l>> drop a read guard         *)
(*   <<"w", l>> take the write guard <<"uw", l>> drop the write guard      *)
(* A read guard is granted whenever no thread holds the write guard (the   *)
(* most permissive policy std::sync::RwLock may have).                     *)
(***************************************************************************)
Locks == {"player_index", "players", "player", "galaxy", "station", "market",
          "fifo_events", "fifo"}

Handlers == {"h1", "h2"}

Driver == "driver"

Threads == Handlers \cup {Driver}

NoThread == "none"

\* api.rs get_player!: the key index, the player map, the lost flag.
GetPlayerProg ==
    << <<"r", "player_index">>, <<"r", "players">>, <<"r", "player">>,
       <<"ur", "player">>, <<"ur", "players">>, <<"ur", "player_index">> >>

\* Galaxy::get_station: the galaxy map is read and released.
GalaxyGetStationProg == << <<"r", "galaxy">>, <<"ur", "galaxy">> >>

\* api.rs get_station!: the player's stations, then the galaxy.
GetStationProg ==
    << <<"r", "player">> >> \o GalaxyGetStationProg \o << <<"ur", "player">> >>

\* Player::update_wages: one owned station, read through the galaxy.
UpdateWagesProg ==
    GalaxyGetStationProg \o << <<"r", "station">>, <<"ur", "station">> >>

\* api.rs refuel_ship and repair_ship: Station first, then Player.
RefuelShipProg ==
    GetPlayerProg \o GetStationProg \o
    << <<"w", "station">>, <<"w", "player">>, <<"uw", "player">>, <<"uw", "station">> >>

\* api.rs shipyard_buy_ship (shipyard_buy_upgrade, buy_station_cargo alike).
BuyShipProg ==
    GetPlayerProg \o GetStationProg \o
    << <<"w", "player">>, <<"w", "station">>, <<"uw", "station">>, <<"uw", "player">> >>

\* api.rs hire_crew and crew.rs hire_crew.
HireCrewProg ==
    GetPlayerProg \o GetStationProg \o
    << <<"w", "station">>, <<"uw", "station">>, <<"w", "player">> >> \o
    UpdateWagesProg \o << <<"uw", "player">> >>

\* api.rs buy_crew_upgrade: update_wages runs with the station read guard held.
BuyCrewUpgradeProg ==
    GetPlayerProg \o GetStationProg \o
    << <<"w", "player">>, <<"r", "station">> >> \o UpdateWagesProg \o
    << <<"ur", "station">>, <<"uw", "player">> >>

\* api.rs buy_resource and sell_resource.
MarketTradeProg ==
    GetPlayerProg \o GetStationProg \o
    << <<"w", "player">>, <<"w", "station">>, <<"w", "market">>,
       <<"uw", "market">>, <<"uw", "station">>, <<"uw", "player">> >>

\* api.rs get_syslogs.
GetSyslogsProg ==
    GetPlayerProg \o
    << <<"r", "player">>, <<"r", "fifo_events">>, <<"w", "fifo">>,
       <<"uw", "fifo">>, <<"ur", "fifo_events">>, <<"ur", "player">> >>

\* SyslogRecv::add_to_fifo that inserts a new queue on every event.
AddToFifoAnew(fe, id, evt) ==
    [p \in (DOMAIN fe) \cup {id} |-> IF p = id THEN FifoPush(FifoNew, evt) ELSE fe[p]]

\* SyslogRecv::add_to_fifo on an existing Fifo.
AddToFifoProg ==
    << <<"r", "fifo_events">>, <<"w", "fifo">>, <<"uw", "fifo">>, <<"ur", "fifo_events">> >>

\* Game::threadloop: market, then the player (an event pushed under the
\* player's write guard), then SyslogRecv::update.
ThreadloopProg ==
    << <<"w", "market">>, <<"uw", "market">>, <<"r", "players">>, <<"w", "player">> >> \o
    AddToFifoProg \o << <<"uw", "player">>, <<"ur", "players">> >> \o AddToFifoProg

HandlerKinds ==
    {"refuel_ship", "buy_ship", "hire_crew", "buy_crew_upgrade", "market_trade",
     "get_syslogs"}

HandlerProg(kind) ==
    CASE kind = "refuel_ship" -> RefuelShipProg
      [] kind = "buy_ship" -> BuyShipProg
      [] kind = "hire_crew" -> HireCrewProg
      [] kind = "buy_crew_upgrade" -> BuyCrewUpgradeProg
      [] kind = "market_trade" -> MarketTradeProg
      [] kind = "get_syslogs" -> GetSyslogsProg

NoReaders(l) == \A t \in Threads : lk_readers[l][t] = 0

\* Whether thread t can perform the lock operation op now.
CanDo(t, op) ==
    CASE op[1] = "r" -> lk_writer[op[2]] = NoThread
      [] op[1] = "w" -> lk_writer[op[2]] = NoThread /\ NoReaders(op[2])
      [] OTHER -> TRUE

\* Thread t holds a guard on lock l that keeps op from being granted.
HoldsAgainst(t, op) ==
    CASE op[1] = "r" -> lk_writer[op[2]] = t
      [] op[1] = "w" -> lk_writer[op[2]] = t \/ lk_readers[op[2]][t] > 0
      [] OTHER -> FALSE

DoLockOp(t, op) ==
    /\ CanDo(t, op)
    /\ lk_writer' =
         CASE op[1] = "w" -> [lk_writer EXCEPT ![op[2]] = t]
           [] op[1] = "uw" -> [lk_writer EXCEPT ![op[2]] = NoThread]
           [] OTHER -> lk_writer
    /\ lk_readers' =
         CASE op[1] = "r" -> [lk_readers EXCEPT ![op[2]][t] = @ + 1]
           [] op[1] = "ur" -> [lk_readers EXCEPT ![op[2]][t] = @ - 1]
           [] OTHER -> lk_readers

InitLockVars ==
    /\ lk_writer = [l \in Locks |-> NoThread]
    /\ lk_readers = [l \in Locks |-> [t \in Threads |-> 0]]
    /\ th_kind = [t \in Threads |-> IF t = Driver THEN "threadloop" ELSE "idle"]
    /\ th_prog = [t \in Threads |-> IF t = Driver THEN ThreadloopProg ELSE <<>>]

\* A request arrives and a handler thread starts serving it.
StartRequest(t, kind) ==
    /\ th_kind[t] = "idle"
    /\ th_kind' = [th_kind EXCEPT ![t] = kind]
    /\ th_prog' = [th_prog EXCEPT ![t] = HandlerProg(kind)]
    /\ UNCHANGED <<lk_writer, lk_readers, notLockVars>>

\* The handler performs its next lock operation; after the last one it answers.
HandlerStep(t) ==
    /\ th_kind[t] # "idle"
    /\ th_prog[t] # <<>>
    /\ DoLockOp(t, Head(th_prog[t]))
    /\ th_prog' = [th_prog EXCEPT ![t] = Tail(@)]
    /\ th_kind' = [th_kind EXCEPT ![t] = IF Tail(th_prog[t]) = <<>> THEN "idle" ELSE @]
    /\ UNCHANGED notLockVars

\* The driver performs the next lock operation of its tick, tick after tick.
DriverStep ==
    /\ DoLockOp(Driver, Head(th_prog[Driver]))
    /\ th_prog' = [th_prog EXCEPT ![Driver] =
                     IF Tail(@) = <<>> THEN ThreadloopProg ELSE Tail(@)]
    /\ UNCHANGED <<th_kind, notLockVars>>

(***************************************************************************)
(* ship/resources.rs: Resource, and ship/cargo.rs: ShipCargo.              *)
(* Quantities are in 1/10000 resource unit, volumes in 1/100, usage and    *)
(* capacity in 1/1000000 cargo unit (volume * quantity).                  *)
(***************************************************************************)
Resources == {"Stone", "Iron", "Helium", "Ozone", "Fuel", "HullPlate"}

\* Resource::volume, in 1/100.
Volume(r) ==
    CASE r \in {"Stone", "Helium"} -> 85
      [] r \in {"Iron", "Ozone"} -> 30
      [] r = "Fuel" -> 200
      [] r = "HullPlate" -> 5

\* One cargo unit in the model's fixed point.
CargoUnit == 1000000

\* ShipCargo::with_capacity(cap), cap in cargo units.
CargoWithCapacity(cap) ==
    [capacity |-> cap * CargoUnit, usage |-> 0, resources |-> [r \in {} |-> 0]]

\* The stock of r, 0 when the map has no entry for it.
Stock(c, r) == IF r \in DOMAIN c.resources THEN c.resources[r] ELSE 0

\* The map with the entry of r set to q (BTreeMap insert or update in place).
WithStock(c, r, q) ==
    [x \in (DOMAIN c.resources) \cup {r} |-> IF x = r THEN q ELSE c.resources[x]]

\* ShipCargo::add_resource: the record [cargo, ret].
CargoAddResource(c, res, amnt) ==
    LET added == Volume(res) * amnt
    IN IF c.usage = c.capacity
       THEN [cargo |-> c, ret |-> 0]
       ELSE LET over == (c.usage + added) > c.capacity
                overflow == (c.usage + added) - c.capacity
                amnt1 == IF over THEN amnt - (overflow \div Volume(res)) ELSE amnt
                usage1 == IF over THEN c.capacity ELSE c.usage + added
            IN [cargo |-> [capacity |-> c.capacity,
                           usage |-> usage1,
                           resources |-> WithStock(c, res, Stock(c, res) + amnt1)],
                ret |-> amnt1]

\* (x * 1000.0).round() / 1000.0 on a usage held in 1/1000000 (x >= 0).
Round3(x) == ((x + 500) \div 1000) * 1000

\* ShipCargo::unload: the record [cargo, ret].
CargoUnload(c, resource, amnt) ==
    IF resource \in DOMAIN c.resources
    THEN LET unload == Min(c.resources[resource], amnt)
             usage1 == Max(c.usage - (Volume(resource) * unload), 0)
         IN [cargo |-> [capacity |-> c.capacity,
                        usage |-> Round3(usage1),
                        resources |-> WithStock(c, resource, c.resources[resource] - unload)],
             ret |-> unload]
    ELSE [cargo |-> c, ret |-> 0]

RECURSIVE SumOver(_, _)
\* The sum of f[x] over the set S.
SumOver(f, S) ==
    IF S = {} THEN 0
    ELSE LET x == CHOOSE y \in S : TRUE IN f[x] + SumOver(f, S \ {x})

\* Sum over the stored resources of volume * quantity.
CargoVolumeSum(c) ==
    SumOver([r \in DOMAIN c.resources |-> Volume(r) * c.resources[r]], DOMAIN c.resources)

Abs(x) == IF x < 0 THEN -x ELSE x

\* Capacities (cargo units), resources and amounts (1/10000) SpecCargo draws.
CargoCaps == {85, 100}

CargoInputs == {"Stone", "Fuel"}

CargoAmounts == {5, 10000, 950000}

\* Number of operations a run of SpecCargo may apply.
MaxCargoOps == 5

InitCargoIdle ==
    /\ cargo = CargoWithCapacity(0)
    /\ cargo_ops = 0
    /\ cargo_ret = 0

InitCargoVars ==
    /\ cargo \in {CargoWithCapacity(cap) : cap \in CargoCaps}
    /\ cargo_ops = 0
    /\ cargo_ret = 0

AddResource(res, amnt) ==
    /\ cargo_ops < MaxCargoOps
    /\ cargo' = CargoAddResource(cargo, res, amnt).cargo
    /\ cargo_ret' = CargoAddResource(cargo, res, amnt).ret
    /\ cargo_ops' = cargo_ops + 1
    /\ UNCHANGED notCargoVars

Unload(res, amnt) ==
    /\ cargo_ops < MaxCargoOps
    /\ cargo' = CargoUnload(cargo, res, amnt).cargo
    /\ cargo_ret' = CargoUnload(cargo, res, amnt).ret
    /\ cargo_ops' = cargo_ops + 1
    /\ UNCHANGED notCargoVars

(***************************************************************************)
(* market.rs: Market.  Prices are in 1/100 currency unit; a sample of the  *)
(* normal distribution Normal(avg, std) is avg + z * std for a standard    *)
(* normal sample z, and z ranges over SampleZ.                             *)
(***************************************************************************)
\* Resource::base_price, in 1/100.
BasePrice(r) ==
    CASE r \in {"Stone", "Helium", "HullPlate"} -> 350
      [] r \in {"Iron", "Ozone"} -> 700
      [] r = "Fuel" -> 500

\* The resources whose prices the model follows.
MarketResources == {"Stone", "Fuel"}

\* The largest magnitude of a standard normal sample the model draws.
MaxZ == 8

SampleZ == {-MaxZ, MaxZ}

\* Number of update_prices calls a run may make.
MaxRolls == 9

\* Market::rand_distrib then Market::get_new_price with the sample z:
\* avg = (1 - old/base) * 0.02, std = |avg| + 0.02, change = avg + z * std,
\* result old * (1 + change).  avg, std and change are kept as numerators
\* over 100 * base.
GetNewPrice(r, old, z) ==
    LET base == BasePrice(r)
        avgN == (base - old) * 2
        stdN == Abs(avgN) + (2 * base)
        changeN == avgN + (z * stdN)
    IN old + ((old * changeN) \div (100 * base))

\* Market::init
InitMarketVars ==
    /\ prices = [r \in MarketResources |-> BasePrice(r)]
    /\ rolls = 0

\* Market::update_prices: every resource is, independently, either skipped
\* (random_bool(UPD_PRICE_PROBA) false) or given a new price.
UpdatePrices ==
    /\ rolls < MaxRolls
    /\ \E pick \in [MarketResources -> SampleZ \cup {0}] :
          prices' = [r \in MarketResources |->
                       IF pick[r] = 0 THEN prices[r]
                       ELSE GetNewPrice(r, prices[r], pick[r])]
    /\ rolls' = rolls + 1
    /\ UNCHANGED notMarketVars

(***************************************************************************)
(* The game (game.rs, player.rs, ship.rs, galaxy/station.rs, api.rs).      *)
(* Coordinates lie on one axis of the galaxy, so that a SpaceCoord is one  *)
(* integer and every distance is a whole number of space units.  Time is   *)
(* counted in driver ticks of ITER_PERIOD; event timestamps are left out.  *)
(***************************************************************************)
PlayerIds == {1}

StationIds == {1}

ShipIds == {1}

\* The CrewId of the pilot of the model's ship.
PilotId == 1

\* INIT_MONEY (30000.0), in 1/40 currency unit.
INIT_MONEY == 1200000

\* One 1/5000 fuel unit and one 1/40 hull unit, in 1/10000 resource unit.
QtyPerFuel == 2

QtyPerHull == 250

\* STATION_INIT_CARGO
STATION_INIT_CARGO == 1000

\* a / b with the fraction dropped.
Quot(a, b) == IF a >= 0 THEN a \div b ELSE -((-a) \div b)

RECURSIVE Ascending(_)
\* The elements of a set of integers in increasing order (BTreeMap iteration).
Ascending(S) ==
    IF S = {} THEN <<>>
    ELSE LET m == CHOOSE x \in S : \A y \in S : x <= y
         IN <<m>> \o Ascending(S \ {m})

\* A map with no entry.
EmptyMap == [x \in {} |-> 0]

\* ---- crew.rs ----
\* rank ^ WAGE_INC_RANK_POWF (2.2), rounded, for the ranks the model's crew hold.
Pow22(rank) ==
    CASE rank = 1 -> 1
      [] rank = 2 -> 5
      [] rank = 3 -> 11
      [] rank = 4 -> 21
      [] rank = 49 -> 5229
      [] rank = 50 -> 5467
      [] rank = 51 -> 5710
      [] rank = 52 -> 5959

\* CrewMember::wage, per tick, in 1/40 currency unit: base * rank^2.2 per second.
Wage(cm) ==
    (CASE cm.member_type = "Pilot" -> 10
       [] cm.member_type = "Operator" -> 1
       [] cm.member_type = "Trader" -> 5
       [] cm.member_type = "Soldier" -> 3) * Pow22(cm.rank)

\* CrewMember::price_next_rank: wage per second * RANK_PRICE_WAGE_MULT (1500).
PriceNextRank(cm) == Wage(cm) * 30000

\* Crew::sum_wages
SumWages(crew) ==
    SumOver([c \in DOMAIN crew |-> Wage(crew[c])], DOMAIN crew)

\* ---- galaxy.rs ----
\* get_distance, in 1/2 space unit.
GetDistance(a, b) == 2 * Abs(b - a)

\* get_direction: the unit vector from a to b, +1 or -1 on the axis.
GetDirection(a, b) == IF b >= a THEN 1 ELSE -1

\* translation: start + dist * direction, cast to SpaceUnit (fraction dropped).
Translation(start, direction, dist) == ((2 * start) + (direction * dist)) \div 2

\* ---- ship.rs ----
Idle == [kind |-> "Idle"]

InFlight(data) == [kind |-> "InFlight", data |-> data]

\* Ship::update_perf_stats.  speed is in 1/2 space unit per tick,
\* fuel_consumption in 1/5000 fuel unit per tick, hull_usage_rate in 1/40 hull
\* unit per 1/2 space unit.
UpdatePerfStats(ship) ==
    [ship EXCEPT !.stats =
        IF ship.pilot # None
        THEN LET rank == ship.crew[ship.pilot[1]].rank
             IN [hull_usage_rate |-> 1,
                 fuel_consumption |-> 5 * ship.reactor_power * (50 - rank),
                 speed |-> 5 * ship.reactor_power * rank]
        ELSE [hull_usage_rate |-> 1,
              fuel_consumption |-> 250 * ship.reactor_power,
              speed |-> 0]]

\* Ship::light
ShipLight(id, position) ==
    [id |-> id,
     reactor_power |-> 1,
     fuel_tank_capacity |-> 5000000,
     hull_decay_capacity |-> 120000,
     position |-> position,
     crew |-> EmptyMap,
     cargo |-> CargoWithCapacity(500),
     fuel_tank |-> 0,
     hull_decay |-> 0,
     pilot |-> None,
     state |-> Idle,
     stats |-> [speed |-> 0, fuel_consumption |-> 0, hull_usage_rate |-> 0],
     modules |-> EmptyMap]

\* Travel::compute_costs: the record [err, cost].
ComputeCosts(ship, destination) ==
    LET distance == GetDistance(ship.position, destination)
    IN IF ship.pilot = None THEN [err |-> "NoPilotAssigned", cost |-> None]
       ELSE IF distance = 0 THEN [err |-> "NullDistance", cost |-> None]
       ELSE [err |-> "ok",
             cost |-> Some([direction |-> GetDirection(ship.position, destination),
                            distance |-> distance,
                            fuel_consumption |->
                                Quot(ship.stats.fuel_consumption * distance, ship.stats.speed),
                            hull_usage |-> ship.stats.hull_usage_rate * distance])]

\* TravelCost::have_enough
HaveEnough(cost, ship) ==
    /\ ship.fuel_tank >= cost.fuel_consumption
    /\ (ship.hull_decay_capacity - ship.hull_decay) >= cost.hull_usage

\* FlightData::new
FlightDataNew(start, cost, destination) ==
    [start |-> start,
     destination |-> destination,
     delta |-> destination - start,
     direction |-> cost.direction,
     dist_done |-> 0,
     dist_tot |-> cost.distance]

\* Ship::set_travel: the record [err, ship].
SetTravel(ship, destination) ==
    IF ship.state # Idle THEN [err |-> "ShipNotIdle", ship |-> ship]
    ELSE LET cc == ComputeCosts(ship, destination)
         IN IF cc.err # "ok" THEN [err |-> cc.err, ship |-> ship]
            ELSE IF ~HaveEnough(cc.cost[1], ship)
            THEN [err |-> "CannotPerformTravel", ship |-> ship]
            ELSE [err |-> "ok",
                  ship |-> [ship EXCEPT !.state =
                               InFlight(FlightDataNew(ship.position, cc.cost[1], destination))]]

\* Ship::update_flight that never reports the arrival.
UpdateFlightNeverArrives(ship) ==
    LET data == ship.state.data
        speed == ship.stats.speed
        done0 == data.dist_done + speed
        over == done0 > data.dist_tot
        doverflow == done0 - data.dist_tot
        dist_done == IF over THEN done0 - doverflow ELSE done0
        dist_delta == IF over THEN speed - doverflow ELSE speed
        fuel1 == ship.fuel_tank - Quot(ship.stats.fuel_consumption * dist_delta, speed)
        hull1 == ship.hull_decay + (ship.stats.hull_usage_rate * dist_delta)
        flying == [ship EXCEPT !.state.data.dist_done = dist_done]
    IN IF fuel1 <= 0
       THEN [ship |-> [flying EXCEPT !.fuel_tank = 0], finished |-> TRUE]
       ELSE IF hull1 >= ship.hull_decay_capacity
       THEN [ship |-> [flying EXCEPT !.fuel_tank = fuel1, !.hull_decay = hull1],
             finished |-> TRUE]
       ELSE [ship |-> [flying EXCEPT !.fuel_tank = fuel1,
                                     !.hull_decay = hull1,
                                     !.position =
                                         Translation(data.start, data.direction, dist_done)],
             finished |-> FALSE]

\* Ship::update_flight over one tick: the record [ship, finished].
UpdateFlight(ship) ==
    LET data == ship.state.data
        speed == ship.stats.speed
        done0 == data.dist_done + speed
        over == done0 > data.dist_tot
        doverflow == done0 - data.dist_tot
        dist_done == IF over THEN done0 - doverflow ELSE done0
        dist_delta == IF over THEN speed - doverflow ELSE speed
        fuel1 == ship.fuel_tank - Quot(ship.stats.fuel_consumption * dist_delta, speed)
        hull1 == ship.hull_decay + (ship.stats.hull_usage_rate * dist_delta)
        flying == [ship EXCEPT !.state.data.dist_done = dist_done]
    IN IF fuel1 <= 0
       THEN [ship |-> [flying EXCEPT !.fuel_tank = 0], finished |-> TRUE]
       ELSE IF hull1 >= ship.hull_decay_capacity
       THEN [ship |-> [flying EXCEPT !.fuel_tank = fuel1, !.hull_decay = hull1],
             finished |-> TRUE]
       ELSE [ship |-> [flying EXCEPT !.fuel_tank = fuel1,
                                     !.hull_decay = hull1,
                                     !.position =
                                         Translation(data.start, data.direction, dist_done)],
             finished |-> over]

\* ---- ship/upgrade.rs ----
ShipUpgrades == {"CargoExpansion", "ReactorUpgrade", "HullUpgrade"}

\* ShipUpgrade::get_price, in 1/40 currency unit.
UpgradePrice(upgrade) ==
    CASE upgrade = "CargoExpansion" -> 40000
      [] upgrade = "ReactorUpgrade" -> 12000
      [] upgrade = "HullUpgrade" -> 20000

\* ShipUpgrade::install
UpgradeInstall(upgrade, ship) ==
    UpdatePerfStats(
        CASE upgrade = "CargoExpansion" ->
                 [ship EXCEPT !.cargo.capacity = @ + (100 * CargoUnit)]
          [] upgrade = "ReactorUpgrade" ->
                 [ship EXCEPT !.reactor_power = @ + 1]
          [] upgrade = "HullUpgrade" ->
                 [ship EXCEPT !.hull_decay_capacity = @ + 4000])

\* ---- ship.rs: the ships of a shipyard ----
\* A ship for sale: the fields that Ship::light, medium, heavy and random
\* set, the capacities in whole units; its other fields are Default.
ForSale(id, position, reactor_power, fuel_tank_capacity, cargo_capacity, hull_decay_capacity) ==
    [id |-> id,
     position |-> position,
     reactor_power |-> reactor_power,
     fuel_tank_capacity |-> fuel_tank_capacity,
     cargo_capacity |-> cargo_capacity,
     hull_decay_capacity |-> hull_decay_capacity]

\* The Ship struct of a ship for sale, in the units of the model.
Delivered(sale) ==
    [id |-> sale.id,
     reactor_power |-> sale.reactor_power,
     fuel_tank_capacity |-> sale.fuel_tank_capacity * 5000,
     hull_decay_capacity |-> sale.hull_decay_capacity * 40,
     position |-> sale.position,
     crew |-> EmptyMap,
     cargo |-> CargoWithCapacity(sale.cargo_capacity),
     fuel_tank |-> 0,
     hull_decay |-> 0,
     pilot |-> None,
     state |-> Idle,
     stats |-> [speed |-> 0, fuel_consumption |-> 0, hull_usage_rate |-> 0],
     modules |-> EmptyMap]

\* Ship::light, Ship::medium and Ship::heavy as ships for sale.
SaleLight(id, position) == ForSale(id, position, 1, 1000, 500, 3000)

SaleMedium(id, position) == ForSale(id, position, 3, 2000, 1000, 6000)

SaleHeavy(id, position) == ForSale(id, position, 10, 4000, 3000, 20000)

\* Ship::random: the draws of the model are the low end of every range and
\* a large ship.
SaleRandom(id, position) ==
    {ForSale(id, position, 1, 1, 100, 1000), ForSale(id, position, 9, 9999, 1500, 49999)}

\* The ids drawn for the three ships of a new shipyard, and those a later
\* Ship::random may draw: rng.random() checks no id against those in use, and
\* one of these is the id of the medium ship.
YardIds == <<11, 12, 13>>

RandomShipIds == {12, 14, 15}

\* Ship::init_shipyard
InitShipyard(position) ==
    <<SaleLight(YardIds[1], position),
      SaleMedium(YardIds[2], position),
      SaleHeavy(YardIds[3], position)>>

\* Ship::compute_price of a ship for sale (it has no module), in 1/40
\* currency unit.
ComputePrice(sale) ==
    40 * ((sale.reactor_power * 300)
          + (sale.fuel_tank_capacity * 3)
          + (sale.cargo_capacity * 10)
          + (sale.hull_decay_capacity * 5))

\* ---- galaxy/station.rs ----
\* Station::init
StationInit(id, position) ==
    [id |-> id,
     position |-> position,
     idle_crew |-> EmptyMap,
     crew |-> EmptyMap,
     shipyard |-> InitShipyard(position),
     cargo |-> CargoWithCapacity(STATION_INIT_CARGO),
     trader |-> None]

\* Station::refuel_ship: the record [err, val, station, ship].
RefuelShip(station, ship) ==
    IF "Fuel" \notin DOMAIN station.cargo.resources
       \/ Stock(station.cargo, "Fuel") = 0
    THEN [err |-> "NoFuelInCargo", val |-> None, station |-> station, ship |-> ship]
    ELSE LET qty == station.cargo.resources["Fuel"]
             needed == (ship.fuel_tank_capacity - ship.fuel_tank) * QtyPerFuel
             un == CargoUnload(station.cargo, "Fuel", Min(needed, qty))
         IN [err |-> "ok",
             val |-> Some(un.ret),
             station |-> [station EXCEPT !.cargo = un.cargo],
             ship |-> [ship EXCEPT !.fuel_tank = @ + Quot(un.ret, QtyPerFuel)]]

\* Station::repair_ship that takes every HullPlate of the cargo, whatever the
\* hull needs.
RepairShipTakesAll(station, ship) ==
    IF "HullPlate" \notin DOMAIN station.cargo.resources
       \/ Stock(station.cargo, "HullPlate") = 0
    THEN [err |-> "NoHullPlateInCargo", val |-> None, station |-> station, ship |-> ship]
    ELSE LET qty == station.cargo.resources["HullPlate"]
             amnt == Min(ship.hull_decay * QtyPerHull, qty)
             un == CargoUnload(station.cargo, "HullPlate", qty)
         IN IF amnt = 0
            THEN [err |-> "ok", val |-> Some(0), station |-> station, ship |-> ship]
            ELSE [err |-> "ok",
                  val |-> Some(amnt),
                  station |-> [station EXCEPT !.cargo = un.cargo],
                  ship |-> [ship EXCEPT !.hull_decay = @ - Quot(amnt, QtyPerHull)]]

\* Station::repair_ship: the record [err, val, station, ship].
RepairShip(station, ship) ==
    IF "HullPlate" \notin DOMAIN station.cargo.resources
       \/ Stock(station.cargo, "HullPlate") = 0
    THEN [err |-> "NoHullPlateInCargo", val |-> None, station |-> station, ship |-> ship]
    ELSE LET qty == station.cargo.resources["HullPlate"]
             amnt == Min(ship.hull_decay * QtyPerHull, qty)
             un == CargoUnload(station.cargo, "HullPlate", amnt)
         IN IF amnt = 0
            THEN [err |-> "ok", val |-> Some(0), station |-> station, ship |-> ship]
            ELSE [err |-> "ok",
                  val |-> Some(un.ret),
                  station |-> [station EXCEPT !.cargo = un.cargo],
                  ship |-> [ship EXCEPT !.hull_decay = @ - Quot(un.ret, QtyPerHull)]]

\* ---- syslog.rs: events ----
Event(type, arg) == [type |-> type, arg |-> arg]

\* The queue of player id in the SyslogFifo map, a new one when it has none.
FifoOf(fe, id) == IF id \in DOMAIN fe THEN fe[id] ELSE FifoNew

\* SyslogRecv::add_to_fifo
AddToFifo(fe, id, evt) ==
    [p \in (DOMAIN fe) \cup {id} |-> IF p = id THEN FifoPush(FifoOf(fe, id), evt) ELSE fe[p]]

RECURSIVE AddAllToFifo(_, _, _)
\* add_to_fifo for each event of a sequence, in order.
AddAllToFifo(fe, id, evts) ==
    IF evts = <<>> THEN fe
    ELSE AddAllToFifo(AddToFifo(fe, id, Head(evts)), id, Tail(evts))

RECURSIVE ShadowPushAll(_, _)
ShadowPushAll(s, evts) ==
    IF evts = <<>> THEN s
    ELSE ShadowPushAll(ShadowPush(s, Head(evts)), Tail(evts))

\* What a read of the queue of player p would return.
Visible(p) == IF p \in DOMAIN fifo_events THEN FifoContents(fifo_events[p]) ELSE <<>>

\* ---- player.rs ----
\* Player::new.  stations holds the ids of the owned stations; the station of
\* an id is looked up in the variable stations (the galaxy map).
PlayerNew(id, station) ==
    [id |-> id,
     lost |-> FALSE,
     money |-> INIT_MONEY,
     costs |-> 0,
     stations |-> {station},
     ships |-> EmptyMap]

\* Player::update_wages; costs is per tick.
UpdateWages(pl, sts) ==
    [pl EXCEPT !.costs =
        SumOver([s \in pl.stations |->
                    SumWages(sts[s].crew) + SumWages(sts[s].idle_crew)], pl.stations)
        + SumOver([s \in DOMAIN pl.ships |-> SumWages(pl.ships[s].crew)], DOMAIN pl.ships)]

\* Player::update_money with the loss declared as soon as the money left is
\* less than the wages of one more tick.
UpdateMoneyLostEarly(pl) ==
    LET before == pl.money < (pl.costs * 1200)
        money1 == pl.money - pl.costs
        after == money1 < (pl.costs * 1200)
        low == IF after /\ ~before
               THEN <<Event("LowFunds", money1 \div pl.costs)>>
               ELSE <<>>
        lose == money1 < pl.costs /\ ~pl.lost
    IN [player |-> [pl EXCEPT !.money = money1,
                              !.lost = IF lose THEN TRUE ELSE @],
        events |-> low \o (IF lose THEN <<Event("GameLost", 0)>> ELSE <<>>)]

\* Player::update_money over one tick: the record [player, events].  The
\* LowFunds threshold is 60 seconds of costs, 1200 ticks.
UpdateMoney(pl) ==
    LET before == pl.money < (pl.costs * 1200)
        money1 == pl.money - pl.costs
        after == money1 < (pl.costs * 1200)
        low == IF after /\ ~before
               THEN <<Event("LowFunds", money1 \div pl.costs)>>
               ELSE <<>>
        lose == money1 < 0 /\ ~pl.lost
    IN [player |-> [pl EXCEPT !.money = money1,
                              !.lost = IF lose THEN TRUE ELSE @],
        events |-> low \o (IF lose THEN <<Event("GameLost", 0)>> ELSE <<>>)]

\* Player::buy_ship_upgrade: the record [err, val, player].
BuyShipUpgrade(pl, station, ship_id, upgrade) ==
    IF ship_id \notin DOMAIN pl.ships
    THEN [err |-> "ShipNotFound", val |-> None, player |-> pl]
    ELSE IF UpgradePrice(upgrade) > pl.money
    THEN [err |-> "NotEnoughMoney", val |-> None, player |-> pl]
    ELSE [err |-> "ok",
          val |-> Some(UpgradePrice(upgrade)),
          player |-> [pl EXCEPT !.money = @ - UpgradePrice(upgrade),
                                !.ships[ship_id] = UpgradeInstall(upgrade, @)]]

\* Player::upgrade_crew_rank: the record [err, val, player].
UpgradeCrewRank(pl, station, ship_id, crew_id) ==
    IF ship_id \notin DOMAIN pl.ships
    THEN [err |-> "ShipNotFound", val |-> None, player |-> pl]
    ELSE IF pl.ships[ship_id].position # station.position
    THEN [err |-> "ShipNotInStation", val |-> None, player |-> pl]
    ELSE IF crew_id \notin DOMAIN pl.ships[ship_id].crew
    THEN [err |-> "CrewMemberNotFound", val |-> None, player |-> pl]
    ELSE LET price == PriceNextRank(pl.ships[ship_id].crew[crew_id])
         IN IF price > pl.money
            THEN [err |-> "NotEnoughMoney", val |-> None, player |-> pl]
            ELSE [err |-> "ok",
                  val |-> Some(price),
                  player |-> [pl EXCEPT
                      !.money = @ - price,
                      !.ships[ship_id] =
                          UpdatePerfStats([@ EXCEPT !.crew[crew_id].rank = @ + 1])]]

\* ---- galaxy/planet.rs, ship/module.rs, ship/resources.rs: extraction ----
\* The coordinate of the planet of the galaxy, a solid one.  A coordinate
\* holds one object: generate_sector skips a coordinate already taken.
PlanetX == 105

\* The coordinate of a second planet, a gaseous one.
GasPlanetX == 108

Planets ==
    (PlanetX :> [position |-> PlanetX, solid |-> TRUE])
        @@ (GasPlanetX :> [position |-> GasPlanetX, solid |-> FALSE])

\* Galaxy::get_planet
GetPlanet(coord) == IF coord \in DOMAIN Planets THEN Some(Planets[coord]) ELSE None

\* Planet::resource_density
ResourceDensity(planet, r) ==
    IF planet.solid
    THEN (CASE r = "Stone" -> 3 [] r = "Iron" -> 1 [] OTHER -> 0)
    ELSE (CASE r = "Helium" -> 3 [] r = "Ozone" -> 1 [] OTHER -> 0)

\* Resource::mineable
Mineable(r, rank) == r = "Stone" \/ (r = "Iron" /\ rank > 3)

\* Resource::suckable
Suckable(r, rank) == r = "Helium" \/ (r = "Ozone" /\ rank > 3)

\* Resource::extraction_difficulty, in 1/100.
ExtractionDifficulty(r) == IF r \in {"Stone", "Helium"} THEN 8 ELSE 200

\* ShipModule::extraction_rate of a module of rank 1 (the rank of every
\* module of the model), in 1/10000 unit per tick.
ExtractionRate(r, oprank, density) == (50000 * density * oprank) \div ExtractionDifficulty(r)

\* ShipModule::can_extract that lets an operator of any rank extract every
\* resource of its module type.
CanExtractAnyRank(smod, crew, planet) ==
    IF smod.operator = None THEN EmptyMap
    ELSE LET cm == crew[smod.operator[1]]
             got == {r \in Resources :
                        /\ ResourceDensity(planet, r) > 0
                        /\ IF smod.modtype = "Miner" THEN r \in {"Stone", "Iron"}
                           ELSE r \in {"Helium", "Ozone"}}
         IN [r \in got |-> ExtractionRate(r, cm.rank, ResourceDensity(planet, r))]

\* ShipModule::can_extract: the rate of each resource the module extracts.
CanExtract(smod, crew, planet) ==
    IF smod.operator = None THEN EmptyMap
    ELSE LET cm == crew[smod.operator[1]]
             got == {r \in Resources :
                        /\ ResourceDensity(planet, r) > 0
                        /\ IF smod.modtype = "Miner" THEN Mineable(r, cm.rank)
                           ELSE Suckable(r, cm.rank)}
         IN [r \in got |-> ExtractionRate(r, cm.rank, ResourceDensity(planet, r))]

\* ExtractionInfo::create: the rates of the modules of the ship, added up.
ExtractionInfoCreate(ship, planet) ==
    LET can == [m \in DOMAIN ship.modules |-> CanExtract(ship.modules[m], ship.crew, planet)]
        got == UNION {DOMAIN can[m] : m \in DOMAIN ship.modules}
    IN [r \in got |->
           SumOver([m \in DOMAIN ship.modules |->
                       IF r \in DOMAIN can[m] THEN can[m][r] ELSE 0], DOMAIN ship.modules)]

Extracting(rates) == [kind |-> "Extracting", rates |-> rates]

\* The resources, in the order of the enum (BTreeMap iteration).
ResourceOrder == <<"Stone", "Iron", "Helium", "Ozone", "Fuel", "HullPlate">>

RECURSIVE ExtractInto(_, _, _)
\* ExtractionInfo::update_cargo, the loop: the resources from the i-th on.
ExtractInto(c, rates, i) ==
    IF i > Len(ResourceOrder) THEN c
    ELSE IF ResourceOrder[i] \in DOMAIN rates
    THEN ExtractInto(CargoAddResource(c, ResourceOrder[i], rates[ResourceOrder[i]]).cargo,
                     rates, i + 1)
    ELSE ExtractInto(c, rates, i + 1)

\* Ship::start_extraction always on a planet (no look at the galaxy).
StartExtractionAnywhere(ship) ==
    IF ship.state # Idle THEN [err |-> "ShipNotIdle", ship |-> ship]
    ELSE [err |-> "ok",
          ship |-> [ship EXCEPT !.state = Extracting(ExtractionInfoCreate(ship, Planets[PlanetX]))]]

\* Ship::start_extraction: the record [err, ship].
StartExtraction(ship) ==
    IF ship.state # Idle THEN [err |-> "ShipNotIdle", ship |-> ship]
    ELSE IF GetPlanet(ship.position) = None
    THEN [err |-> "CannotExtractWithoutPlanet", ship |-> ship]
    ELSE [err |-> "ok",
          ship |-> [ship EXCEPT !.state =
                       Extracting(ExtractionInfoCreate(ship, GetPlanet(ship.position)[1]))]]

\* Ship::stop_extraction that stops a flight as well.
StopExtractionInFlight(ship) ==
    IF ship.state = Idle THEN [err |-> "ShipNotExtracting", ship |-> ship]
    ELSE [err |-> "ok", ship |-> [ship EXCEPT !.state = Idle]]

\* Ship::stop_extraction: the record [err, ship].
StopExtraction(ship) ==
    IF ship.state.kind # "Extracting" THEN [err |-> "ShipNotExtracting", ship |-> ship]
    ELSE [err |-> "ok", ship |-> [ship EXCEPT !.state = Idle]]

\* Ship::update_extract that never reports a full cargo.
UpdateExtractNeverFull(ship) ==
    LET c == ExtractInto(ship.cargo, ship.state.rates, 1)
    IN [ship |-> [ship EXCEPT !.cargo = c], finished |-> FALSE]

\* Ship::update_extract over one tick: the record [ship, finished].
UpdateExtract(ship) ==
    LET c == ExtractInto(ship.cargo, ship.state.rates, 1)
    IN [ship |-> [ship EXCEPT !.cargo = c], finished |-> c.usage = c.capacity]

\* ---- game.rs: the driver ----
\* The ship branch of Game::threadloop that never looks at the hull.
ShipStepNoHullCheck(ship) ==
    IF ship.state.kind = "InFlight"
    THEN LET uf == UpdateFlight(ship)
         IN IF uf.finished
            THEN [ship |-> [uf.ship EXCEPT !.state = Idle], dead |-> FALSE,
                  events |-> <<Event("ShipFlightFinished", ship.id)>>]
            ELSE [ship |-> uf.ship, dead |-> FALSE, events |-> <<>>]
    ELSE IF ship.state.kind = "Extracting"
    THEN LET ue == UpdateExtract(ship)
         IN IF ue.finished
            THEN [ship |-> [ue.ship EXCEPT !.state = Idle], dead |-> FALSE,
                  events |-> <<Event("ExtractionStopped", ship.id)>>]
            ELSE [ship |-> ue.ship, dead |-> FALSE, events |-> <<>>]
    ELSE [ship |-> ship, dead |-> FALSE, events |-> <<>>]

\* Game::threadloop, the match on one ship's state: the record [ship, dead,
\* events].
ShipStep(ship) ==
    IF ship.state.kind = "InFlight"
    THEN LET uf == UpdateFlight(ship)
         IN IF uf.finished
            THEN IF uf.ship.hull_decay >= uf.ship.hull_decay_capacity
                 THEN [ship |-> [uf.ship EXCEPT !.state = Idle], dead |-> TRUE,
                       events |-> <<>>]
                 ELSE [ship |-> [uf.ship EXCEPT !.state = Idle], dead |-> FALSE,
                       events |-> <<Event("ShipFlightFinished", ship.id)>>]
            ELSE [ship |-> uf.ship, dead |-> FALSE, events |-> <<>>]
    ELSE IF ship.state.kind = "Extracting"
    THEN LET ue == UpdateExtract(ship)
         IN IF ue.finished
            THEN [ship |-> [ue.ship EXCEPT !.state = Idle], dead |-> FALSE,
                  events |-> <<Event("ExtractionStopped", ship.id)>>]
            ELSE [ship |-> ue.ship, dead |-> FALSE, events |-> <<>>]
    ELSE [ship |-> ship, dead |-> FALSE, events |-> <<>>]

RECURSIVE Concat(_, _)
\* The concatenation of f[x] for x along the sequence ids.
Concat(f, ids) == IF ids = <<>> THEN <<>> ELSE f[Head(ids)] \o Concat(f, Tail(ids))

\* Game::threadloop, the body of the loop over the players, for one player:
\* the record [player, events], events in the order they are put in the queue.
PlayerTick(pl) ==
    LET um == UpdateMoney(pl)
        ids == DOMAIN pl.ships
        step == [s \in ids |-> ShipStep(pl.ships[s])]
        dead == {s \in ids : step[s].dead}
    IN [player |-> [um.player EXCEPT !.ships = [s \in ids \ dead |-> step[s].ship]],
        events |-> um.events
                   \o Concat([s \in ids |-> step[s].events], Ascending(ids))
                   \o [i \in 1 .. Cardinality(dead) |->
                          Event("ShipDestroyed", Ascending(dead)[i])]]

\* ---- api.rs: the request handlers ----
\* Number of driver ticks and of requests in a run, and of the ticks that
\* roll the market.
MaxTicks == 3

MaxCmds == 3

MaxGameRolls == 1

\* The coordinate of the player's station and the destinations asked for.
StationX == 100

Dests == {StationX, StationX + 3, StationX + 5, StationX + 255}

\* get_player! without the test of the lost flag.
GetPlayerErrNoLostCheck(p) ==
    IF p \notin DOMAIN players THEN "NoPlayerWithKey" ELSE "ok"

\* get_player!: the error the macro returns with, "ok" when it yields the player.
GetPlayerErr(p) ==
    IF p \notin DOMAIN players THEN "NoPlayerWithKey"
    ELSE IF players[p].lost THEN "PlayerLost"
    ELSE "ok"

\* get_station!
GetStationErr(p, st) ==
    IF st \notin players[p].stations THEN "NoSuchStation" ELSE "ok"

\* build_response: the reply to the request op of player p.
Reply(op, p, err, val) ==
    /\ resp' = [op |-> op, player |-> p, err |-> err, val |-> val]
    /\ cmds' = cmds + 1

\* Game::new_player and the handler new_player.  The player's id and the id of
\* its station are the name; the station is created at StationX.
NewPlayer(name) ==
    /\ cmds < MaxCmds
    /\ IF name \in DOMAIN players
       THEN /\ Reply("new_player", name, "PlayerAlreadyExists", None)
            /\ UNCHANGED <<players, stations, channel, due>>
       ELSE /\ Reply("new_player", name, "ok", Some(name))
            /\ stations' = [s \in (DOMAIN stations) \cup {name} |->
                               IF s = name THEN StationInit(name, StationX) ELSE stations[s]]
            /\ players' = [p \in (DOMAIN players) \cup {name} |->
                              IF p = name THEN PlayerNew(name, name) ELSE players[p]]
            /\ channel' = Append(channel, [player |-> name, evt |-> Event("GameStarted", 0)])
            /\ due' = [due EXCEPT ![name] = ShadowPush(@, Event("GameStarted", 0))]
    /\ UNCHANGED <<fifo_events, ticks, marketVars, notGameVars>>

\* get_syslogs
GetSyslogs(p) ==
    /\ cmds < MaxCmds
    /\ IF GetPlayerErr(p) # "ok"
       THEN /\ Reply("syslogs", p, GetPlayerErr(p), None)
            /\ UNCHANGED <<fifo_events, due>>
       ELSE IF p \notin DOMAIN fifo_events
       THEN /\ Reply("syslogs", p, "ok", <<>>)
            /\ due' = [due EXCEPT ![p] = <<>>]
            /\ UNCHANGED fifo_events
       ELSE /\ Reply("syslogs", p, "ok", FifoRemoveAll(fifo_events[p]).data)
            /\ fifo_events' = [fifo_events EXCEPT ![p] = FifoRemoveAll(@).fifo]
            /\ due' = [due EXCEPT ![p] = <<>>]
    /\ UNCHANGED <<players, stations, channel, ticks, marketVars, notGameVars>>

\* ask_navigate
AskNavigate(p, id, dest) ==
    /\ cmds < MaxCmds
    /\ IF GetPlayerErr(p) # "ok"
       THEN /\ Reply("navigate", p, GetPlayerErr(p), None)
            /\ UNCHANGED players
       ELSE IF id \notin DOMAIN players[p].ships
       THEN /\ Reply("navigate", p, "ShipNotFound", None)
            /\ UNCHANGED players
       ELSE LET st == SetTravel(players[p].ships[id], dest)
            IN /\ Reply("navigate", p, st.err, None)
               /\ players' = [players EXCEPT ![p].ships[id] = st.ship]
    /\ UNCHANGED <<stations, channel, fifo_events, due, ticks, marketVars, notGameVars>>

\* refuel_ship
RefuelShipCmd(p, st, id) ==
    /\ cmds < MaxCmds
    /\ IF GetPlayerErr(p) # "ok"
       THEN /\ Reply("refuel", p, GetPlayerErr(p), None)
            /\ UNCHANGED <<players, stations>>
       ELSE IF GetStationErr(p, st) # "ok"
       THEN /\ Reply("refuel", p, GetStationErr(p, st), None)
            /\ UNCHANGED <<players, stations>>
       ELSE IF id \notin DOMAIN players[p].ships
       THEN /\ Reply("refuel", p, "ShipNotFound", None)
            /\ UNCHANGED <<players, stations>>
       ELSE LET r == RefuelShip(stations[st], players[p].ships[id])
            IN /\ Reply("refuel", p, r.err, r.val)
               /\ players' = [players EXCEPT ![p].ships[id] = r.ship]
               /\ stations' = [stations EXCEPT ![st] = r.station]
    /\ UNCHANGED <<channel, fifo_events, due, ticks, marketVars, notGameVars>>

\* repair_ship
RepairShipCmd(p, st, id) ==
    /\ cmds < MaxCmds
    /\ IF GetPlayerErr(p) # "ok"
       THEN /\ Reply("repair", p, GetPlayerErr(p), None)
            /\ UNCHANGED <<players, stations>>
       ELSE IF GetStationErr(p, st) # "ok"
       THEN /\ Reply("repair", p, GetStationErr(p, st), None)
            /\ UNCHANGED <<players, stations>>
       ELSE IF id \notin DOMAIN players[p].ships
       THEN /\ Reply("repair", p, "ShipNotFound", None)
            /\ UNCHANGED <<players, stations>>
       ELSE LET r == RepairShip(stations[st], players[p].ships[id])
            IN /\ Reply("repair", p, r.err, r.val)
               /\ players' = [players EXCEPT ![p].ships[id] = r.ship]
               /\ stations' = [stations EXCEPT ![st] = r.station]
    /\ UNCHANGED <<channel, fifo_events, due, ticks, marketVars, notGameVars>>

\* shipyard_buy_upgrade
ShipyardBuyUpgrade(p, st, id, upgrade) ==
    /\ cmds < MaxCmds
    /\ IF GetPlayerErr(p) # "ok"
       THEN /\ Reply("buy_upgrade", p, GetPlayerErr(p), None)
            /\ UNCHANGED players
       ELSE IF GetStationErr(p, st) # "ok"
       THEN /\ Reply("buy_upgrade", p, GetStationErr(p, st), None)
            /\ UNCHANGED players
       ELSE LET r == BuyShipUpgrade(players[p], stations[st], id, upgrade)
            IN /\ Reply("buy_upgrade", p, r.err, r.val)
               /\ players' = [players EXCEPT ![p] = r.player]
    /\ UNCHANGED <<stations, channel, fifo_events, due, ticks, marketVars, notGameVars>>

\* buy_crew_upgrade
BuyCrewUpgrade(p, st, id, crew_id) ==
    /\ cmds < MaxCmds
    /\ IF GetPlayerErr(p) # "ok"
       THEN /\ Reply("crew_upgrade", p, GetPlayerErr(p), None)
            /\ UNCHANGED players
       ELSE IF GetStationErr(p, st) # "ok"
       THEN /\ Reply("crew_upgrade", p, GetStationErr(p, st), None)
            /\ UNCHANGED players
       ELSE LET r == UpgradeCrewRank(players[p], stations[st], id, crew_id)
            IN /\ Reply("crew_upgrade", p, r.err, r.val)
               /\ players' = [players EXCEPT ![p] =
                                 IF r.err = "ok" THEN UpdateWages(r.player, stations)
                                 ELSE r.player]
    /\ UNCHANGED <<stations, channel, fifo_events, due, ticks, marketVars, notGameVars>>

\* Game::threadloop: the market roll, the loop over the players, then
\* SyslogRecv::update, which moves one event of the channel to its queue.
ThreadloopBody ==
    /\ \/ UNCHANGED marketVars
       \/ /\ rolls < MaxGameRolls
          /\ \E pick \in [MarketResources -> SampleZ \cup {0}] :
                prices' = [r \in MarketResources |->
                             IF pick[r] = 0 THEN prices[r]
                             ELSE GetNewPrice(r, prices[r], pick[r])]
          /\ rolls' = rolls + 1
    /\ LET pt == [p \in DOMAIN players |-> PlayerTick(players[p])]
           hit == {p \in DOMAIN players : pt[p].events # <<>>}
           fifo1 == [p \in (DOMAIN fifo_events) \cup hit |->
                        IF p \in hit THEN AddAllToFifo(fifo_events, p, pt[p].events)[p]
                        ELSE fifo_events[p]]
       IN /\ players' = [p \in DOMAIN players |-> pt[p].player]
          /\ due' = [p \in PlayerIds |->
                       IF p \in DOMAIN players THEN ShadowPushAll(due[p], pt[p].events)
                       ELSE due[p]]
          /\ IF channel = <<>>
             THEN /\ fifo_events' = fifo1
                  /\ UNCHANGED channel
             ELSE /\ fifo_events' = AddToFifo(fifo1, Head(channel).player, Head(channel).evt)
                  /\ channel' = Tail(channel)
    /\ UNCHANGED <<stations, resp, cmds>>

\* Game::threadloop, one of the MaxTicks calls of a run.
Threadloop ==
    /\ ticks < MaxTicks
    /\ ThreadloopBody
    /\ ticks' = ticks + 1

\* One iteration of the loop of Game::start, seen from the handlers.
Tick == Threadloop /\ UNCHANGED notGameVars

\* ---- game.rs: the loop of the driver and its stop channel ----
\* The test of the while loop: stop.try_recv() is Err(Empty) while nothing was
\* sent, and the loop goes on; once a value is received the thread returns.
\* The Game of the driver thread holds a Sender: the channel never disconnects.
DriverTest ==
    /\ driver_pc = "test"
    /\ IF stop_chan = <<>>
       THEN /\ driver_pc' = "threadloop"
            /\ UNCHANGED stop_chan
       ELSE /\ driver_pc' = "exited"
            /\ stop_chan' = Tail(stop_chan)
    /\ UNCHANGED <<stop_ticks, fifoVars, lockVars, cargoVars, marketVars, gameVars, registryVars, requestVars>>

\* self.threadloop(..) in the loop.
DriverLoop ==
    /\ driver_pc = "threadloop"
    /\ Threadloop
    /\ driver_pc' = "sleep"
    /\ stop_ticks' = IF stop_chan # <<>> THEN stop_ticks + 1 ELSE stop_ticks
    /\ UNCHANGED <<stop_chan, fifoVars, lockVars, cargoVars, registryVars, requestVars>>

\* std::thread::sleep(..) for what is left of ITER_PERIOD.
DriverSleep ==
    /\ driver_pc = "sleep"
    /\ driver_pc' = "test"
    /\ UNCHANGED <<stop_chan, stop_ticks, fifoVars, lockVars, cargoVars, marketVars, gameVars, registryVars, requestVars>>

\* Game::stop: send_stop.send(true); stop takes the Game by value and is
\* called once.  The join that follows waits for driver_pc = "exited".
Stop ==
    /\ stop_chan = <<>>
    /\ driver_pc # "exited"
    /\ stop_chan' = <<TRUE>>
    /\ UNCHANGED <<driver_pc, stop_ticks, fifoVars, lockVars, cargoVars, marketVars, gameVars, registryVars, requestVars>>

\* Game::init: the driver thread is spawned and nothing is sent.
InitDriverIdle ==
    /\ driver_pc = "test"
    /\ stop_chan = <<>>
    /\ stop_ticks = 0

\* ---- the states a run starts from ----
\* A light ship docked at the station with a pilot of the given rank on board
\* (shipyard_buy_ship, hire_crew, assign_pilot).
DockedLight(rank) ==
    UpdatePerfStats([ShipLight(1, StationX) EXCEPT
                        !.crew = (PilotId :> [member_type |-> "Pilot", rank |-> rank]),
                        !.pilot = Some(PilotId)])

\* The shipyard once its light ship is sold: Ship::random has drawn its
\* smallest ship.
YardAfterLight(position) ==
    <<SaleMedium(YardIds[2], position),
      SaleHeavy(YardIds[3], position),
      ForSale(14, position, 1, 1, 100, 1000)>>

\* The station with 0.098 unit of Fuel and 0.25 unit of HullPlate in its
\* cargo; its light ship is sold.
StockedStation ==
    [StationInit(1, StationX) EXCEPT
        !.cargo = CargoAddResource(CargoAddResource(@, "Fuel", 980).cargo,
                                   "HullPlate", 2500).cargo,
        !.shipyard = YardAfterLight(StationX)]

\* Game::init: no player yet.
Fresh ==
    [players |-> EmptyMap, stations |-> EmptyMap, fifo_events |-> EmptyMap]

\* A player short of money whose ship has flown 59995 space units: the tank
\* holds the fuel of 5 more units, the hull has 0.25 left.
Worn ==
    [players |-> (1 :> [PlayerNew(1, 1) EXCEPT
                           !.money = 25,
                           !.costs = Wage([member_type |-> "Pilot", rank |-> 1]),
                           !.ships = (1 :> [DockedLight(1) EXCEPT
                                               !.fuel_tank = 490,
                                               !.hull_decay = 119990])]),
     stations |-> (1 :> StockedStation),
     fifo_events |-> (1 :> FifoNew)]

\* A rich player whose pilot has reached rank 50, with a full tank.
Veteran ==
    [players |-> (1 :> [PlayerNew(1, 1) EXCEPT
                           !.money = 1700000000,
                           !.costs = Wage([member_type |-> "Pilot", rank |-> 50]),
                           !.ships = (1 :> [DockedLight(50) EXCEPT
                                               !.fuel_tank = 5000000])]),
     stations |-> (1 :> StockedStation),
     fifo_events |-> (1 :> FifoNew)]

Scenarios == {Fresh, Worn, Veteran}

InitGameIdle ==
    /\ players = EmptyMap
    /\ stations = EmptyMap
    /\ fifo_events = EmptyMap
    /\ channel = <<>>
    /\ due = [p \in PlayerIds |-> <<>>]
    /\ resp = [op |-> "none", player |-> 0, err |-> "ok", val |-> None]
    /\ ticks = 0
    /\ cmds = 0

InitGameVars ==
    /\ \E sc \in Scenarios :
          /\ players = sc.players
          /\ stations = sc.stations
          /\ fifo_events = sc.fifo_events
    /\ channel = <<>>
    /\ due = [p \in PlayerIds |-> <<>>]
    /\ resp = [op |-> "none", player |-> 0, err |-> "ok", val |-> None]
    /\ ticks = 0
    /\ cmds = 0

(***************************************************************************)
(* Trades (market.rs: Market::buy, Market::sell; galaxy/station.rs:        *)
(* buy_resource, sell_resource; api.rs: buy_resource, sell_resource).      *)
(* A rate (fee rate, price increase or decrease) is in 1/10000.            *)
(***************************************************************************)
\* The CrewId of the station's trader in the states a run starts from.
TraderId == 2

\* (a * b) / c with the fraction dropped, for a, b >= 0 and c > 0, computed
\* without leaving the range of the integers.
MulDiv(a, b, c) == ((a \div c) * b) + (((a % c) * b) \div c)

\* fee_rate(rank): BASE_FEE_RATE / rank^FEE_RATE_DEC_POWF = 0.20 / rank^1.3.
FeeRate(rank) ==
    CASE rank = 1 -> 2000
      [] rank = 2 -> 812
      [] rank = 3 -> 479

\* amnt * price as money: a quantity in 1/10000 times a price in 1/100, in
\* 1/40 currency unit.
Cost(amnt, price) == MulDiv(amnt, price, 25000)

\* The bounds of random_range(min ..= max) the model draws, in percent of max:
\* PRICE_INC_MIN_RATIO and the upper end.
PriceMoves == {75, 100}

\* MarketTx
MarketTx(added_cargo, removed_cargo, added_money, removed_money, fees) ==
    [added_cargo |-> added_cargo,
     removed_cargo |-> removed_cargo,
     added_money |-> added_money,
     removed_money |-> removed_money,
     fees |-> fees]

\* Market::buy that charges the price the purchase has pushed up.
MarketBuyAtNewPrice(pr, trader, r, amnt, u) ==
    LET fee_amnt == MulDiv(amnt, FeeRate(trader.rank), 10000)
        price == pr[r]
        inc == (((Cost(amnt, price) \div 200) * u) \div 100)
        price1 == price + MulDiv(price, inc, 10000)
    IN [prices |-> [pr EXCEPT ![r] = price1],
        tx |-> MarketTx(Some(<<r, amnt - fee_amnt>>), None, None,
                        Some(Cost(amnt, price1)), Cost(fee_amnt, price))]

\* Market::buy with the draw u of random_range: the record [prices, tx].
\* price_inc_max = amnt * price / PRICE_INC_DIV * PRICE_INC_RANGE_MAX.
MarketBuy(pr, trader, r, amnt, u) ==
    LET fee_amnt == MulDiv(amnt, FeeRate(trader.rank), 10000)
        price == pr[r]
        inc == (((Cost(amnt, price) \div 200) * u) \div 100)
    IN [prices |-> [pr EXCEPT ![r] = price + MulDiv(price, inc, 10000)],
        tx |-> MarketTx(Some(<<r, amnt - fee_amnt>>), None, None,
                        Some(Cost(amnt, price)), Cost(fee_amnt, price))]

\* Market::sell with the draw u of random_range: the record [prices, tx].
MarketSell(pr, trader, r, amnt, u) ==
    LET price == pr[r]
        cost == Cost(amnt, price)
        fees == MulDiv(cost, FeeRate(trader.rank), 10000)
        dec == (((cost \div 200) * u) \div 100)
    IN [prices |-> [pr EXCEPT ![r] = price - MulDiv(price, dec, 10000)],
        tx |-> MarketTx(None, Some(<<r, amnt>>), Some(cost - fees), None, fees)]

\* ShipCargo::space_for
CargoSpaceFor(c, resource) == (c.capacity - c.usage) \div Volume(resource)

\* Station::buy_resource: the record [err, val, station, player, prices].
\* err is "panicked" when assert!(amnt > 0.0) or assert!(price > 0.0) of
\* Market::buy fails.
StationBuyResource(station, resource, amnt, pl, pr, u) ==
    LET same == [station |-> station, player |-> pl, prices |-> pr]
    IN IF station.trader = None
       THEN [err |-> "NoTraderAssigned", val |-> None] @@ same
       ELSE LET cm == station.crew[station.trader[1]]
                amnt1 == Min(amnt, CargoSpaceFor(station.cargo, resource))
                mb == MarketBuy(pr, cm, resource, amnt1, u)
            IN IF amnt1 = 0
               THEN [err |-> "BuyNothing", val |-> None] @@ same
               ELSE IF amnt1 < 0 \/ pr[resource] <= 0
               THEN [err |-> "panicked", val |-> None] @@ same
               ELSE [err |-> "ok",
                     val |-> Some(mb.tx),
                     station |-> [station EXCEPT !.cargo =
                                     CargoAddResource(@, mb.tx.added_cargo[1][1],
                                                      mb.tx.added_cargo[1][2]).cargo],
                     player |-> [pl EXCEPT !.money = @ - mb.tx.removed_money[1]],
                     prices |-> mb.prices]

\* Station::sell_resource: the record [err, val, station, player, prices].
\* err is "panicked" when an assert! of Market::sell fails.
StationSellResource(station, resource, amnt, pl, pr, u) ==
    LET same == [station |-> station, player |-> pl, prices |-> pr]
    IN IF station.trader = None
       THEN [err |-> "NoTraderAssigned", val |-> None] @@ same
       ELSE IF resource \notin DOMAIN station.cargo.resources
       THEN [err |-> "SellNothing", val |-> None] @@ same
       ELSE LET cm == station.crew[station.trader[1]]
                amnt1 == Min(amnt, station.cargo.resources[resource])
                ms == MarketSell(pr, cm, resource, amnt1, u)
            IN IF amnt1 = 0
               THEN [err |-> "SellNothing", val |-> None] @@ same
               ELSE IF amnt1 < 0 \/ pr[resource] <= 0
               THEN [err |-> "panicked", val |-> None] @@ same
               ELSE [err |-> "ok",
                     val |-> Some(ms.tx),
                     station |-> [station EXCEPT !.cargo =
                                     CargoUnload(@, ms.tx.removed_cargo[1][1],
                                                 ms.tx.removed_cargo[1][2]).cargo],
                     player |-> [pl EXCEPT !.money = @ + ms.tx.added_money[1]],
                     prices |-> ms.prices]

\* The resources traded and the amounts asked for: -1, 0, 1, 16000 and 20000
\* units (the amount is any f64 the path of the request parses to).
TradeResources == {"Fuel", "HullPlate"}

TradeAmounts == {-10000, 0, 10000, 160000000, 200000000}

\* A handler that panics drops the write guards it holds on the player, the
\* station and the market while unwinding: the three locks are poisoned, and
\* every later write().unwrap() or read().unwrap() on them panics as well.
Poisoned == resp.err = "panicked"

\* buy_resource (api.rs)
BuyResource(p, st, resource, amnt, u) ==
    /\ cmds < MaxCmds
    /\ IF GetPlayerErr(p) # "ok"
       THEN /\ Reply("buy_resource", p, GetPlayerErr(p), None)
            /\ UNCHANGED <<players, stations, prices>>
       ELSE IF Poisoned
       THEN /\ Reply("buy_resource", p, "panicked", None)
            /\ UNCHANGED <<players, stations, prices>>
       ELSE IF GetStationErr(p, st) # "ok"
       THEN /\ Reply("buy_resource", p, GetStationErr(p, st), None)
            /\ UNCHANGED <<players, stations, prices>>
       ELSE LET r == StationBuyResource(stations[st], resource, amnt, players[p], prices, u)
            IN /\ Reply("buy_resource", p, r.err, r.val)
               /\ players' = [players EXCEPT ![p] = r.player]
               /\ stations' = [stations EXCEPT ![st] = r.station]
               /\ prices' = r.prices
    /\ UNCHANGED <<channel, fifo_events, due, ticks, rolls, notGameVars>>

\* sell_resource (api.rs)
SellResource(p, st, resource, amnt, u) ==
    /\ cmds < MaxCmds
    /\ IF GetPlayerErr(p) # "ok"
       THEN /\ Reply("sell_resource", p, GetPlayerErr(p), None)
            /\ UNCHANGED <<players, stations, prices>>
       ELSE IF Poisoned
       THEN /\ Reply("sell_resource", p, "panicked", None)
            /\ UNCHANGED <<players, stations, prices>>
       ELSE IF GetStationErr(p, st) # "ok"
       THEN /\ Reply("sell_resource", p, GetStationErr(p, st), None)
            /\ UNCHANGED <<players, stations, prices>>
       ELSE LET r == StationSellResource(stations[st], resource, amnt, players[p], prices, u)
            IN /\ Reply("sell_resource", p, r.err, r.val)
               /\ players' = [players EXCEPT ![p] = r.player]
               /\ stations' = [stations EXCEPT ![st] = r.station]
               /\ prices' = r.prices
    /\ UNCHANGED <<channel, fifo_events, due, ticks, rolls, notGameVars>>

\* A new player whose station has a trader of the given rank assigned
\* (hire_crew then assign_trader, and rank - 1 upgrade_station_trader).
Trading(rank) ==
    [players |-> (1 :> [PlayerNew(1, 1) EXCEPT
                           !.costs = Wage([member_type |-> "Trader", rank |-> rank])]),
     stations |-> (1 :> [StationInit(1, StationX) EXCEPT
                            !.crew = (TraderId :> [member_type |-> "Trader", rank |-> rank]),
                            !.trader = Some(TraderId)]),
     fifo_events |-> (1 :> FifoNew)]

\* A new player whose station has no trader yet.
NoTrader ==
    [players |-> (1 :> PlayerNew(1, 1)),
     stations |-> (1 :> StationInit(1, StationX)),
     fifo_events |-> (1 :> FifoNew)]

TradeScenarios == {Trading(1), Trading(2), NoTrader}

\* Market::init over the traded resources, and the game of a trade scenario.
InitTradeVars ==
    /\ prices = [r \in TradeResources |-> BasePrice(r)]
    /\ rolls = 0
    /\ \E sc \in TradeScenarios :
          /\ players = sc.players
          /\ stations = sc.stations
          /\ fifo_events = sc.fifo_events
    /\ channel = <<>>
    /\ due = [p \in PlayerIds |-> <<>>]
    /\ resp = [op |-> "none", player |-> 0, err |-> "ok", val |-> None]
    /\ ticks = 0
    /\ cmds = 0

(***************************************************************************)
(* The shipyard (player.rs: Player::buy_ship; api.rs: shipyard_buy_ship).  *)
(***************************************************************************)
\* The index of the ship of id in the shipyard that the loop of buy_ship
\* ends with (the last one of that id), 0 when there is none.
YardIndex(shipyard, id) ==
    LET hits == {n \in 1 .. Len(shipyard) : shipyard[n].id = id}
    IN IF hits = {} THEN 0 ELSE CHOOSE n \in hits : \A k \in hits : k <= n

\* Vec::remove(index)
SeqRemove(s, index) == [i \in 1 .. (Len(s) - 1) |-> IF i < index THEN s[i] ELSE s[i + 1]]

\* Player::buy_ship that leaves the tank of the ship as it is delivered.
PlayerBuyShipEmptyTank(pl, station, id, fresh) ==
    LET index == YardIndex(station.shipyard, id)
        price == ComputePrice(station.shipyard[index])
        ship == UpdatePerfStats(Delivered(station.shipyard[index]))
    IN IF index = 0
       THEN [err |-> "ShipNotFound", val |-> None, player |-> pl, station |-> station]
       ELSE IF price > pl.money
       THEN [err |-> "NotEnoughMoney", val |-> None, player |-> pl, station |-> station]
       ELSE [err |-> "ok",
             val |-> Some(ship.id),
             player |-> [pl EXCEPT
                            !.money = @ - price,
                            !.ships = [s \in (DOMAIN pl.ships) \cup {id} |->
                                          IF s = id THEN ship ELSE pl.ships[s]]],
             station |-> [station EXCEPT
                             !.shipyard = Append(SeqRemove(station.shipyard, index), fresh)]]

\* Player::buy_ship, fresh being the ship that Ship::random draws: the record
\* [err, val, player, station].
PlayerBuyShip(pl, station, id, fresh) ==
    LET index == YardIndex(station.shipyard, id)
        price == ComputePrice(station.shipyard[index])
        ship0 == UpdatePerfStats(Delivered(station.shipyard[index]))
        ship == [ship0 EXCEPT !.fuel_tank = ship0.fuel_tank_capacity]
    IN IF index = 0
       THEN [err |-> "ShipNotFound", val |-> None, player |-> pl, station |-> station]
       ELSE IF price > pl.money
       THEN [err |-> "NotEnoughMoney", val |-> None, player |-> pl, station |-> station]
       ELSE [err |-> "ok",
             val |-> Some(ship.id),
             player |-> [pl EXCEPT
                            !.money = @ - price,
                            !.ships = [s \in (DOMAIN pl.ships) \cup {id} |->
                                          IF s = id THEN ship ELSE pl.ships[s]]],
             station |-> [station EXCEPT
                             !.shipyard = Append(SeqRemove(station.shipyard, index), fresh)]]

\* shipyard_buy_ship (api.rs).  Ship::random draws the id of the new ship
\* for sale from the rng, whatever the ids in use.
ShipyardBuyShip(p, st, id) ==
    /\ cmds < MaxCmds
    /\ IF GetPlayerErr(p) # "ok"
       THEN /\ Reply("buy_ship", p, GetPlayerErr(p), None)
            /\ UNCHANGED <<players, stations>>
       ELSE IF GetStationErr(p, st) # "ok"
       THEN /\ Reply("buy_ship", p, GetStationErr(p, st), None)
            /\ UNCHANGED <<players, stations>>
       ELSE \E fid \in RandomShipIds :
               \E fresh \in SaleRandom(fid, stations[st].position) :
                  LET r == PlayerBuyShip(players[p], stations[st], id, fresh)
                  IN /\ Reply("buy_ship", p, r.err, r.val)
                     /\ players' = [players EXCEPT ![p] = r.player]
                     /\ stations' = [stations EXCEPT ![st] = r.station]
    /\ UNCHANGED <<channel, fifo_events, due, ticks, marketVars, notGameVars>>

\* The ship ids asked for: those of the new shipyard, one a later
\* Ship::random may have drawn, and one no ship has.
AskedShipIds == {YardIds[1], YardIds[2], YardIds[3], 14, 99}

\* A player right after new_player, and one who has earned 70000 more.
Newcomer(money) ==
    [players |-> (1 :> [PlayerNew(1, 1) EXCEPT !.money = money]),
     stations |-> (1 :> StationInit(1, StationX)),
     fifo_events |-> (1 :> FifoNew)]

YardScenarios == {Newcomer(INIT_MONEY), Newcomer(INIT_MONEY + 2800000)}

InitYardVars ==
    /\ \E sc \in YardScenarios :
          /\ players = sc.players
          /\ stations = sc.stations
          /\ fifo_events = sc.fifo_events
    /\ channel = <<>>
    /\ due = [p \in PlayerIds |-> <<>>]
    /\ resp = [op |-> "none", player |-> 0, err |-> "ok", val |-> None]
    /\ ticks = 0
    /\ cmds = 0

(***************************************************************************)
(* The crew (simeis-server crew.rs: hire_crew; galaxy/station.rs:          *)
(* assign_trader, onboard_pilot, onboard_operator; player.rs:              *)
(* buy_ship_module, upgrade_station_trader; ship/module.rs).               *)
(***************************************************************************)
CrewMemberTypes == {"Pilot", "Operator", "Trader", "Soldier"}

ShipModuleTypes == {"Miner", "GasSucker"}

\* CrewMember::from(crewtype)
CrewMemberFrom(member_type) == [member_type |-> member_type, rank |-> 1]

\* ShipModuleType::new_module
NewModule(modtype) == [operator |-> None, modtype |-> modtype, rank |-> 1, totalcost |-> 0]

\* ShipModuleType::get_price_buy, in 1/40 currency unit.
ModulePriceBuy(modtype) == 80000

\* ShipModule::need
ModuleNeed(smod, ctype) == ctype = "Operator" /\ smod.operator = None

\* BTreeMap::insert
MapInsert(map, key, value) ==
    [k \in (DOMAIN map) \cup {key} |-> IF k = key THEN value ELSE map[k]]

\* BTreeMap::remove
MapRemove(map, key) == [k \in (DOMAIN map) \ {key} |-> map[k]]

\* Station::assign_trader: the record [err, station].
StationAssignTrader(station, id) ==
    IF id \notin DOMAIN station.idle_crew
    THEN [err |-> "CrewMemberNotIdle", station |-> station]
    ELSE [err |-> "ok",
          station |-> [station EXCEPT
                          !.idle_crew = MapRemove(@, id),
                          !.crew = MapInsert(@, id, station.idle_crew[id]),
                          !.trader = Some(id)]]

\* Station::onboard_pilot: the record [err, arg, station, ship], arg being the
\* CrewMemberType that a WrongCrewType carries.
StationOnboardPilot(station, id, ship) ==
    IF id \notin DOMAIN station.idle_crew
    THEN [err |-> "CrewMemberNotIdle", arg |-> None, station |-> station, ship |-> ship]
    ELSE IF station.idle_crew[id].member_type # "Pilot"
    THEN [err |-> "WrongCrewType", arg |-> Some("Pilot"), station |-> station, ship |-> ship]
    ELSE IF ship.pilot # None
    THEN [err |-> "CrewNotNeeded", arg |-> None, station |-> station, ship |-> ship]
    ELSE [err |-> "ok",
          arg |-> None,
          station |-> [station EXCEPT !.idle_crew = MapRemove(@, id)],
          ship |-> UpdatePerfStats([ship EXCEPT
                                       !.pilot = Some(id),
                                       !.crew = MapInsert(@, id, station.idle_crew[id])])]

\* Station::onboard_operator: the record [err, arg, station, ship].
StationOnboardOperator(station, id, ship, modid) ==
    IF id \notin DOMAIN station.idle_crew
    THEN [err |-> "CrewMemberNotIdle", arg |-> None, station |-> station, ship |-> ship]
    ELSE IF station.idle_crew[id].member_type # "Operator"
    THEN [err |-> "WrongCrewType", arg |-> Some("Pilot"), station |-> station, ship |-> ship]
    ELSE IF modid \notin DOMAIN ship.modules
    THEN [err |-> "NoSuchModule", arg |-> None, station |-> station, ship |-> ship]
    ELSE IF ~ModuleNeed(ship.modules[modid], station.idle_crew[id].member_type)
    THEN [err |-> "CrewNotNeeded", arg |-> None, station |-> station, ship |-> ship]
    ELSE [err |-> "ok",
          arg |-> None,
          station |-> [station EXCEPT !.idle_crew = MapRemove(@, id)],
          ship |-> [ship EXCEPT
                       !.modules[modid].operator = Some(id),
                       !.crew = MapInsert(@, id, station.idle_crew[id])]]

\* Player::buy_ship_module: the record [err, val, player].  sts is the galaxy:
\* the coordinate of station_id is that of sts[station_id].
PlayerBuyShipModule(pl, sts, station_id, ship_id, modtype) ==
    IF station_id \notin pl.stations
    THEN [err |-> "NoSuchStation", val |-> None, player |-> pl]
    ELSE IF ship_id \notin DOMAIN pl.ships
    THEN [err |-> "ShipNotFound", val |-> None, player |-> pl]
    ELSE IF sts[station_id].position # pl.ships[ship_id].position
    THEN [err |-> "ShipNotInStation", val |-> None, player |-> pl]
    ELSE IF pl.money < ModulePriceBuy(modtype)
    THEN [err |-> "NotEnoughMoney", val |-> None, player |-> pl]
    ELSE LET id == Cardinality(DOMAIN pl.ships[ship_id].modules) + 1
         IN [err |-> "ok",
             val |-> Some(id),
             player |-> [pl EXCEPT
                            !.money = @ - ModulePriceBuy(modtype),
                            !.ships[ship_id].modules = MapInsert(@, id, NewModule(modtype))]]

\* Player::upgrade_station_trader: the record [err, val, player, station].
PlayerUpgradeStationTrader(pl, station) ==
    IF station.trader = None
    THEN [err |-> "NoTraderAssigned", val |-> None, player |-> pl, station |-> station]
    ELSE LET trader_id == station.trader[1]
             price == PriceNextRank(station.crew[trader_id])
         IN IF price > pl.money
            THEN [err |-> "NotEnoughMoney", val |-> None, player |-> pl, station |-> station]
            ELSE [err |-> "ok",
                  val |-> Some(price),
                  player |-> [pl EXCEPT !.money = @ - price],
                  station |-> [station EXCEPT !.crew[trader_id].rank = @ + 1]]

\* The CrewIds that hire_crew may draw: rng.random() checks no id against
\* those in use, and one of these is the id of the pilot of the scenarios.
HireIds == {PilotId, 4}

\* hire_crew (api.rs, then simeis-server crew.rs).  The id of the new member
\* is drawn from the rng, whatever the ids in use.
HireCrew(p, st, crewtype) ==
    /\ cmds < MaxCmds
    /\ IF GetPlayerErr(p) # "ok"
       THEN /\ Reply("hire_crew", p, GetPlayerErr(p), None)
            /\ UNCHANGED <<players, stations>>
       ELSE IF GetStationErr(p, st) # "ok"
       THEN /\ Reply("hire_crew", p, GetStationErr(p, st), None)
            /\ UNCHANGED <<players, stations>>
       ELSE \E id \in HireIds :
               LET sts1 == [stations EXCEPT ![st].idle_crew =
                               MapInsert(@, id, CrewMemberFrom(crewtype))]
               IN /\ Reply("hire_crew", p, "ok", Some(id))
                  /\ stations' = sts1
                  /\ players' = [players EXCEPT ![p] = UpdateWages(@, sts1)]
    /\ UNCHANGED <<channel, fifo_events, due, ticks, marketVars, notGameVars>>

\* assign_trader (api.rs)
AssignTrader(p, st, crew_id) ==
    /\ cmds < MaxCmds
    /\ IF GetPlayerErr(p) # "ok"
       THEN /\ Reply("assign_trader", p, GetPlayerErr(p), None)
            /\ UNCHANGED stations
       ELSE IF GetStationErr(p, st) # "ok"
       THEN /\ Reply("assign_trader", p, GetStationErr(p, st), None)
            /\ UNCHANGED stations
       ELSE LET r == StationAssignTrader(stations[st], crew_id)
            IN /\ Reply("assign_trader", p, r.err, None)
               /\ stations' = [stations EXCEPT ![st] = r.station]
    /\ UNCHANGED <<players, channel, fifo_events, due, ticks, marketVars, notGameVars>>

\* assign_pilot (api.rs)
AssignPilot(p, st, crew_id, ship_id) ==
    /\ cmds < MaxCmds
    /\ IF GetPlayerErr(p) # "ok"
       THEN /\ Reply("assign_pilot", p, GetPlayerErr(p), None)
            /\ UNCHANGED <<players, stations>>
       ELSE IF GetStationErr(p, st) # "ok"
       THEN /\ Reply("assign_pilot", p, GetStationErr(p, st), None)
            /\ UNCHANGED <<players, stations>>
       ELSE IF ship_id \notin DOMAIN players[p].ships
       THEN /\ Reply("assign_pilot", p, "ShipNotFound", None)
            /\ UNCHANGED <<players, stations>>
       ELSE LET r == StationOnboardPilot(stations[st], crew_id, players[p].ships[ship_id])
            IN /\ Reply("assign_pilot", p, r.err, r.arg)
               /\ players' = [players EXCEPT ![p].ships[ship_id] = r.ship]
               /\ stations' = [stations EXCEPT ![st] = r.station]
    /\ UNCHANGED <<channel, fifo_events, due, ticks, marketVars, notGameVars>>

\* assign_operator (api.rs)
AssignOperator(p, st, crew_id, ship_id, modid) ==
    /\ cmds < MaxCmds
    /\ IF GetPlayerErr(p) # "ok"
       THEN /\ Reply("assign_operator", p, GetPlayerErr(p), None)
            /\ UNCHANGED <<players, stations>>
       ELSE IF GetStationErr(p, st) # "ok"
       THEN /\ Reply("assign_operator", p, GetStationErr(p, st), None)
            /\ UNCHANGED <<players, stations>>
       ELSE IF ship_id \notin DOMAIN players[p].ships
       THEN /\ Reply("assign_operator", p, "ShipNotFound", None)
            /\ UNCHANGED <<players, stations>>
       ELSE LET r == StationOnboardOperator(stations[st], crew_id,
                                            players[p].ships[ship_id], modid)
            IN /\ Reply("assign_operator", p, r.err, r.arg)
               /\ players' = [players EXCEPT ![p].ships[ship_id] = r.ship]
               /\ stations' = [stations EXCEPT ![st] = r.station]
    /\ UNCHANGED <<channel, fifo_events, due, ticks, marketVars, notGameVars>>

\* buy_ship_module (api.rs)
BuyShipModule(p, st, ship_id, modtype) ==
    /\ cmds < MaxCmds
    /\ IF GetPlayerErr(p) # "ok"
       THEN /\ Reply("buy_module", p, GetPlayerErr(p), None)
            /\ UNCHANGED players
       ELSE LET r == PlayerBuyShipModule(players[p], stations, st, ship_id, modtype)
            IN /\ Reply("buy_module", p, r.err, r.val)
               /\ players' = [players EXCEPT ![p] = r.player]
    /\ UNCHANGED <<stations, channel, fifo_events, due, ticks, marketVars, notGameVars>>

\* upgrade_station_trader (api.rs)
UpgradeStationTrader(p, st) ==
    /\ cmds < MaxCmds
    /\ IF GetPlayerErr(p) # "ok"
       THEN /\ Reply("upgrade_trader", p, GetPlayerErr(p), None)
            /\ UNCHANGED <<players, stations>>
       ELSE IF GetStationErr(p, st) # "ok"
       THEN /\ Reply("upgrade_trader", p, GetStationErr(p, st), None)
            /\ UNCHANGED <<players, stations>>
       ELSE LET r == PlayerUpgradeStationTrader(players[p], stations[st])
                sts1 == [stations EXCEPT ![st] = r.station]
            IN /\ Reply("upgrade_trader", p, r.err, r.val)
               /\ stations' = sts1
               /\ players' = [players EXCEPT ![p] =
                                 IF r.err = "ok" THEN UpdateWages(r.player, sts1)
                                 ELSE r.player]
    /\ UNCHANGED <<channel, fifo_events, due, ticks, marketVars, notGameVars>>

\* The CrewIds, module ids and destination asked for in the crew commands.
OperatorId == 3

AskedCrewIds == {PilotId, TraderId, OperatorId, 4}

AskedModuleIds == {1, 2}

CrewDests == {StationX + 5}

\* A player who has bought the light ship and a Miner for it, and hired a
\* pilot and an operator, both still idle.
Recruiting ==
    [players |-> (1 :> [PlayerNew(1, 1) EXCEPT
                           !.money = INIT_MONEY - ComputePrice(SaleLight(1, StationX))
                                     - ModulePriceBuy("Miner"),
                           !.costs = Wage(CrewMemberFrom("Pilot"))
                                     + Wage(CrewMemberFrom("Operator")),
                           !.ships = (1 :> [ShipLight(1, StationX) EXCEPT
                                               !.fuel_tank = 5000000,
                                               !.modules = (1 :> NewModule("Miner"))])]),
     stations |-> (1 :> [StationInit(1, StationX) EXCEPT
                            !.idle_crew = (PilotId :> CrewMemberFrom("Pilot"))
                                          @@ (OperatorId :> CrewMemberFrom("Operator")),
                            !.shipyard = YardAfterLight(StationX)]),
     fifo_events |-> (1 :> FifoNew)]

\* A player with 5000 of money, a trader of rank 1 at the station and a
\* pilot of rank 2 on a ship that has flown 59995 space units.
Staffed ==
    [players |-> (1 :> [PlayerNew(1, 1) EXCEPT
                           !.money = 200000,
                           !.costs = Wage([member_type |-> "Pilot", rank |-> 2])
                                     + Wage(CrewMemberFrom("Trader")),
                           !.ships = (1 :> [DockedLight(2) EXCEPT
                                               !.fuel_tank = 1000,
                                               !.hull_decay = 119990])]),
     stations |-> (1 :> [StationInit(1, StationX) EXCEPT
                            !.crew = (TraderId :> CrewMemberFrom("Trader")),
                            !.trader = Some(TraderId),
                            !.shipyard = YardAfterLight(StationX)]),
     fifo_events |-> (1 :> FifoNew)]

CrewScenarios == {Newcomer(INIT_MONEY), Recruiting, Staffed}

\* The game of a crew scenario; the market has had its roll.
InitCrewVars ==
    /\ \E sc \in CrewScenarios :
          /\ players = sc.players
          /\ stations = sc.stations
          /\ fifo_events = sc.fifo_events
    /\ channel = <<>>
    /\ due = [p \in PlayerIds |-> <<>>]
    /\ resp = [op |-> "none", player |-> 0, err |-> "ok", val |-> None]
    /\ ticks = 0
    /\ cmds = 0
    /\ prices = [r \in MarketResources |-> BasePrice(r)]
    /\ rolls = MaxGameRolls

\* ---- Extraction ----
\* start_extraction
StartExtractionCmd(p, id) ==
    /\ cmds < MaxCmds
    /\ IF GetPlayerErr(p) # "ok"
       THEN /\ Reply("start_extraction", p, GetPlayerErr(p), None)
            /\ UNCHANGED players
       ELSE IF id \notin DOMAIN players[p].ships
       THEN /\ Reply("start_extraction", p, "ShipNotFound", None)
            /\ UNCHANGED players
       ELSE LET se == StartExtraction(players[p].ships[id])
            IN /\ Reply("start_extraction", p, se.err, None)
               /\ players' = [players EXCEPT ![p].ships[id] = se.ship]
    /\ UNCHANGED <<stations, channel, fifo_events, due, ticks, marketVars, notGameVars>>

\* stop_extraction
StopExtractionCmd(p, id) ==
    /\ cmds < MaxCmds
    /\ IF GetPlayerErr(p) # "ok"
       THEN /\ Reply("stop_extraction", p, GetPlayerErr(p), None)
            /\ UNCHANGED players
       ELSE IF id \notin DOMAIN players[p].ships
       THEN /\ Reply("stop_extraction", p, "ShipNotFound", None)
            /\ UNCHANGED players
       ELSE LET se == StopExtraction(players[p].ships[id])
            IN /\ Reply("stop_extraction", p, se.err, None)
               /\ players' = [players EXCEPT ![p].ships[id] = se.ship]
    /\ UNCHANGED <<stations, channel, fifo_events, due, ticks, marketVars, notGameVars>>

\* The destinations asked for: the station, the planet and a far point.
MiningDests == {StationX, PlanetX, StationX + 255}

\* A player whose light ship is idle on the planet, a pilot and the operator
\* of its Miner on board, 1.05 unit of room left in a cargo of Stone.
Mining ==
    [players |-> (1 :> [PlayerNew(1, 1) EXCEPT
                           !.money = INIT_MONEY - ComputePrice(SaleLight(1, StationX))
                                     - ModulePriceBuy("Miner"),
                           !.costs = Wage(CrewMemberFrom("Pilot"))
                                     + Wage(CrewMemberFrom("Operator")),
                           !.ships = (1 :> [DockedLight(1) EXCEPT
                                               !.position = PlanetX,
                                               !.fuel_tank = 2000000,
                                               !.hull_decay = 10,
                                               !.crew = @ @@ (OperatorId :> CrewMemberFrom("Operator")),
                                               !.modules = (1 :> [NewModule("Miner") EXCEPT
                                                                     !.operator = Some(OperatorId)]),
                                               !.cargo = CargoAddResource(@, "Stone", 5870000).cargo])]),
     stations |-> (1 :> [StationInit(1, StationX) EXCEPT
                            !.shipyard = YardAfterLight(StationX)]),
     fifo_events |-> (1 :> FifoNew)]

MiningScenarios == {Mining, Recruiting, Staffed}

\* The modules a prospecting ship carries, each a pair of its type and of the
\* rank of its operator, 0 for a module without operator.
ModuleSetups ==
    LET one == {"Miner", "GasSucker"} \X {0, 1, 4}
    IN {<<m>> : m \in one} \cup {<<m, n>> : m \in one, n \in one}

\* A player whose light ship is idle on the planet at coord with the modules
\* of setup (buy_ship_module), their operators hired, assigned and upgraded
\* (hire_crew, assign_operator, upgrade_crew_rank) under the ids from
\* OperatorId on.
Prospecting(coord, setup) ==
    LET manned == {i \in 1 .. Len(setup) : setup[i][2] > 0}
        operators == [c \in {OperatorId + i - 1 : i \in manned} |->
                         [member_type |-> "Operator", rank |-> setup[c - OperatorId + 1][2]]]
    IN [players |-> (1 :> [PlayerNew(1, 1) EXCEPT
                              !.costs = Wage(CrewMemberFrom("Pilot")) + SumWages(operators),
                              !.ships = (1 :> [DockedLight(1) EXCEPT
                                                  !.position = coord,
                                                  !.fuel_tank = 2000000,
                                                  !.hull_decay = 10,
                                                  !.crew = @ @@ operators,
                                                  !.modules =
                                                     [i \in 1 .. Len(setup) |->
                                                         [NewModule(setup[i][1]) EXCEPT
                                                             !.operator =
                                                                IF i \in manned
                                                                THEN Some(OperatorId + i - 1)
                                                                ELSE None]]])]),
        stations |-> (1 :> [StationInit(1, StationX) EXCEPT
                               !.shipyard = YardAfterLight(StationX)]),
        fifo_events |-> (1 :> FifoNew)]

ProspectScenarios ==
    {Prospecting(coord, setup) : coord \in DOMAIN Planets, setup \in ModuleSetups}

\* The game of a prospecting scenario; the market has had its roll.
InitProspectVars ==
    /\ \E sc \in ProspectScenarios :
          /\ players = sc.players
          /\ stations = sc.stations
          /\ fifo_events = sc.fifo_events
    /\ channel = <<>>
    /\ due = [p \in PlayerIds |-> <<>>]
    /\ resp = [op |-> "none", player |-> 0, err |-> "ok", val |-> None]
    /\ ticks = 0
    /\ cmds = 0
    /\ prices = [r \in MarketResources |-> BasePrice(r)]
    /\ rolls = MaxGameRolls

\* The game of a mining scenario; the market has had its roll.
InitMiningVars ==
    /\ \E sc \in MiningScenarios :
          /\ players = sc.players
          /\ stations = sc.stations
          /\ fifo_events = sc.fifo_events
    /\ channel = <<>>
    /\ due = [p \in PlayerIds |-> <<>>]
    /\ resp = [op |-> "none", player |-> 0, err |-> "ok", val |-> None]
    /\ ticks = 0
    /\ cmds = 0
    /\ prices = [r \in MarketResources |-> BasePrice(r)]
    /\ rolls = MaxGameRolls

(***************************************************************************)
(* The registry of players: Game::new_player (game.rs), Player::new        *)
(* (player.rs) and Galaxy::init_new_station (galaxy.rs), run by handler    *)
(* threads that interleave between the lock guards the code takes.         *)
(* Coordinates are kept on the x axis; a planet is kept as its kind.       *)
(***************************************************************************)
\* The names asked for.
PlayerNames == {"player171", "player427", "alice"}

\* Player::new: the id of a name is the DefaultHasher (SipHash-1-3 with zero
\* keys) value of its bytes, modulo PlayerId::MAX (65535).
PlayerIdOf(name) ==
    CASE name = "player171" -> 28405
      [] name = "player427" -> 28405
      [] name = "alice" -> 33438

\* The values rng.fill_bytes gives the 128 bytes of a key.
KeyDraws == {1, 2, 3}

\* The values rng.random() gives the id and the x coordinate of a new station.
StationIdDraws == {7, 8}

StationCoordDraws == {100, 250, 1100}

SECTOR_SIZE == 1000

PLANETS_PER_SECTOR == 10

\* The sectors of StationCoordDraws, by their start.
SectorStarts == {0, 1000}

\* The offsets in their sector of the coordinates the PLANETS_PER_SECTOR draws
\* of one generate_sector run give; a run that draws a coordinate twice gives
\* fewer coordinates than draws.
PlanetDraws ==
    {{10 * i : i \in 1 .. 10}, {10 * i : i \in 6 .. 15}, {10, 20, 30}}

\* Total number of new_player calls.
MaxNewPlayers == 2

\* compute_sector
compute_sector(x) ==
    LET start_x == x - (x % SECTOR_SIZE)
    IN <<start_x, start_x + SECTOR_SIZE>>

\* GalaxyMap::empty
GalaxyEmpty == [objects |-> EmptyMap, discovered |-> <<>>]

\* GalaxyMap::is_discovered
is_discovered(g, x) ==
    \E i \in 1 .. Len(g.discovered) :
        ~(x < g.discovered[i][1] \/ x > g.discovered[i][2])

\* GalaxyMap::insert: the record [err, galaxy].
GalaxyInsert(g, coord, obj) ==
    IF coord \in DOMAIN g.objects
    THEN [err |-> TRUE, galaxy |-> g]
    ELSE [err |-> FALSE,
          galaxy |-> [g EXCEPT !.objects =
                         [c \in (DOMAIN @) \cup {coord} |->
                             IF c = coord THEN obj ELSE @[c]]]]

RECURSIVE InsertPlanets(_, _)
\* The loop of generate_sector over the coordinates drawn: an insert that is
\* refused is skipped.
InsertPlanets(g, coords) ==
    IF coords = {} THEN g
    ELSE LET c == CHOOSE x \in coords : TRUE
         IN InsertPlanets(GalaxyInsert(g, c, [kind |-> "Planet"]).galaxy, coords \ {c})

\* GalaxyMap::generate_sector, with the offsets its draws give.
generate_sector(g, coord, draw) ==
    InsertPlanets(g, {compute_sector(coord)[1] + o : o \in draw})

\* The keys of the players created and of the calls in progress.
KeysInUse ==
    (DOMAIN player_index)
        \cup {np[t].player[1].key : t \in {u \in Handlers : np[u].pc \in {"index", "insert"}}}

\* Player::new with the key drawn; its ships, money and costs are left out.
PlayerNamed(station, name, key) ==
    [id |-> PlayerIdOf(name),
     key |-> key,
     lost |-> FALSE,
     name |-> name,
     stations |-> (station[1] :> station[2])]

\* A handler thread that runs no new_player call.
NoCall == [pc |-> "idle", name |-> "", player |-> None]

\* Number of new_player calls started.
CallsStarted ==
    Len(np_replies) + Cardinality({t \in Handlers : np[t].pc # "idle"})

\* Game::new_player, the search for the name under players.read(): the call
\* ends with PlayerAlreadyExists when a player holds the name, and goes on
\* without the guard otherwise.
NewPlayerCheck(t, name) ==
    /\ np[t].pc = "idle"
    /\ CallsStarted < MaxNewPlayers
    /\ IF \E id \in DOMAIN registry : registry[id].name = name
       THEN /\ np_replies' = Append(np_replies,
                                [name |-> name, err |-> "PlayerAlreadyExists",
                                 id |-> CHOOSE id \in DOMAIN registry : registry[id].name = name,
                                 key |-> 0])
            /\ UNCHANGED np
       ELSE /\ np' = [np EXCEPT ![t] = [pc |-> "station", name |-> name, player |-> None]]
            /\ UNCHANGED np_replies
    /\ UNCHANGED <<registry, player_index, galaxy, generated>>
    /\ UNCHANGED <<fifoVars, lockVars, cargoVars, marketVars, gameVars, driverVars, requestVars>>

\* Galaxy::init_new_station under galaxy.write(), then Player::new.  When the
\* coordinate drawn is taken the function calls itself with the guard alive:
\* the second write() on the same thread blocks for ever or panics, and then
\* the guard is dropped with the lock poisoned.
NewPlayerStation(t, coord, id, draw, key) ==
    /\ np[t].pc = "station"
    /\ \A u \in Handlers : np[u].pc # "blocked"
    /\ key \notin KeysInUse
    /\ IF \E u \in Handlers : np[u].pc = "panicked"
       THEN /\ np' = [np EXCEPT ![t].pc = "panicked"]
            /\ UNCHANGED <<galaxy, generated>>
       ELSE LET res == GalaxyInsert(galaxy, coord, [kind |-> "BaseStation", id |-> id])
                sector == compute_sector(coord)[1]
            IN IF res.err
               THEN /\ \E pc \in {"blocked", "panicked"} : np' = [np EXCEPT ![t].pc = pc]
                    /\ UNCHANGED <<galaxy, generated>>
               ELSE /\ IF ~is_discovered(res.galaxy, coord)
                       THEN /\ galaxy' = generate_sector(res.galaxy, coord, draw)
                            /\ generated' = [generated EXCEPT ![sector] = @ + 1]
                       ELSE /\ galaxy' = res.galaxy
                            /\ UNCHANGED generated
                    /\ np' = [np EXCEPT ![t].pc = "index",
                                        ![t].player = Some(PlayerNamed(<<id, coord>>, np[t].name, key))]
    /\ UNCHANGED <<registry, player_index, np_replies>>
    /\ UNCHANGED <<fifoVars, lockVars, cargoVars, marketVars, gameVars, driverVars, requestVars>>

\* player_index.write().insert(player.key, player.id)
NewPlayerIndex(t) ==
    /\ np[t].pc = "index"
    /\ LET player == np[t].player[1]
       IN player_index' = [k \in (DOMAIN player_index) \cup {player.key} |->
                              IF k = player.key THEN player.id ELSE player_index[k]]
    /\ np' = [np EXCEPT ![t].pc = "insert"]
    /\ UNCHANGED <<registry, galaxy, np_replies, generated>>
    /\ UNCHANGED <<fifoVars, lockVars, cargoVars, marketVars, gameVars, driverVars, requestVars>>

\* players.write().insert(player.id, ..), the GameStarted event and the reply
\* of the handler.
NewPlayerInsert(t) ==
    /\ np[t].pc = "insert"
    /\ LET player == np[t].player[1]
       IN /\ registry' = [id \in (DOMAIN registry) \cup {player.id} |->
                             IF id = player.id THEN player ELSE registry[id]]
          /\ channel' = Append(channel, [player |-> player.id, evt |-> Event("GameStarted", 0)])
          /\ np_replies' = Append(np_replies,
                              [name |-> player.name, err |-> "ok",
                               id |-> player.id, key |-> player.key])
    /\ np' = [np EXCEPT ![t] = NoCall]
    /\ UNCHANGED <<player_index, galaxy, generated>>
    /\ UNCHANGED <<players, stations, fifo_events, due, resp, ticks, cmds>>
    /\ UNCHANGED <<fifoVars, lockVars, cargoVars, marketVars, driverVars, requestVars>>

\* get_syslogs with the key of the request: get_player! looks the key up in
\* player_index and the id in players (players.get(id).unwrap() panics for a
\* key whose player is not inserted yet), then the handler empties the queue
\* of that id.
GetSyslogsWithKey(key) ==
    /\ cmds < MaxCmds
    /\ IF key \notin DOMAIN player_index
       THEN /\ Reply("syslogs", 0, "NoPlayerWithKey", None)
            /\ UNCHANGED fifo_events
       ELSE LET id == player_index[key]
            IN IF id \notin DOMAIN registry
               THEN /\ Reply("syslogs", id, "panicked", None)
                    /\ UNCHANGED fifo_events
               ELSE IF registry[id].lost
               THEN /\ Reply("syslogs", id, "PlayerLost", None)
                    /\ UNCHANGED fifo_events
               ELSE IF id \notin DOMAIN fifo_events
               THEN /\ Reply("syslogs", id, "ok", <<>>)
                    /\ UNCHANGED fifo_events
               ELSE /\ Reply("syslogs", id, "ok", FifoRemoveAll(fifo_events[id]).data)
                    /\ fifo_events' = [fifo_events EXCEPT ![id] = FifoRemoveAll(@).fifo]
    /\ UNCHANGED <<players, stations, channel, due, ticks>>
    /\ UNCHANGED <<fifoVars, lockVars, cargoVars, marketVars, registryVars, driverVars, requestVars>>

\* Game::init: no player, an empty galaxy.
InitRegistryIdle ==
    /\ registry = EmptyMap
    /\ player_index = EmptyMap
    /\ galaxy = GalaxyEmpty
    /\ np = [t \in Handlers |-> NoCall]
    /\ np_replies = <<>>
    /\ generated = [s \in SectorStarts |-> 0]

(***************************************************************************)
(* Unloading a ship (ship.rs: Ship::unload_cargo; api.rs:                  *)
(* unload_ship_cargo).                                                     *)
(***************************************************************************)
\* Ship::unload_cargo: the record [val, ship, station].
ShipUnloadCargo(ship, resource, amnt, station) ==
    LET un == CargoUnload(ship.cargo, resource, amnt)
        unloaded == un.ret
        add == CargoAddResource(station.cargo, resource, unloaded)
        added == add.ret
    IN IF unloaded = 0
       THEN [val |-> 0, ship |-> [ship EXCEPT !.cargo = un.cargo], station |-> station]
       ELSE IF added < unloaded
       THEN [val |-> added,
             ship |-> [ship EXCEPT !.cargo =
                          CargoAddResource(un.cargo, resource, unloaded - added).cargo],
             station |-> [station EXCEPT !.cargo = add.cargo]]
       ELSE [val |-> unloaded,
             ship |-> [ship EXCEPT !.cargo = un.cargo],
             station |-> [station EXCEPT !.cargo = add.cargo]]

\* The resource names and the amounts asked for: -1, 0, 1 and 1000 units.
UnloadResources == {"Stone", "Iron", "Gold"}

UnloadAmounts == {-10000, 0, 10000, 10000000}

\* unload_ship_cargo (api.rs)
UnloadShipCargo(p, id, resource, amnt) ==
    /\ cmds < MaxCmds
    /\ IF resource \notin Resources
       THEN /\ Reply("unload", p, "InvalidArgument", None)
            /\ UNCHANGED <<players, stations, channel, due>>
       ELSE IF GetPlayerErr(p) # "ok"
       THEN /\ Reply("unload", p, GetPlayerErr(p), None)
            /\ UNCHANGED <<players, stations, channel, due>>
       ELSE IF Poisoned
       THEN /\ Reply("unload", p, "panicked", None)
            /\ UNCHANGED <<players, stations, channel, due>>
       ELSE IF id \notin DOMAIN players[p].ships
       THEN /\ Reply("unload", p, "ShipNotFound", None)
            /\ UNCHANGED <<players, stations, channel, due>>
       ELSE LET ship == players[p].ships[id]
                at == {st \in players[p].stations : stations[st].position = ship.position}
            IN IF at = {}
               THEN /\ Reply("unload", p, "ShipNotInStation", None)
                    /\ UNCHANGED <<players, stations, channel, due>>
               ELSE LET st == CHOOSE s \in at : \A o \in at : s <= o
                        r == ShipUnloadCargo(ship, resource, amnt, stations[st])
                    IN /\ Reply("unload", p, "ok", Some(r.val))
                       /\ players' = [players EXCEPT ![p].ships[id] = r.ship]
                       /\ stations' = [stations EXCEPT ![st] = r.station]
                       /\ IF r.val = 0
                          THEN /\ channel' = Append(channel,
                                                [player |-> p, evt |-> Event("UnloadedNothing", 0)])
                               /\ due' = [due EXCEPT ![p] = ShadowPush(@, Event("UnloadedNothing", 0))]
                          ELSE UNCHANGED <<channel, due>>
    /\ UNCHANGED <<fifo_events, ticks, marketVars, notGameVars>>

\* A player whose station has a rank-1 trader and whose light ship is docked
\* there with 10 units of Stone in its cargo (start_extraction on the planet,
\* then the flight back).
Laden ==
    [players |-> (1 :> [PlayerNew(1, 1) EXCEPT
                           !.costs = Wage(CrewMemberFrom("Pilot")) + Wage(CrewMemberFrom("Trader")),
                           !.ships = (1 :> [DockedLight(1) EXCEPT
                                               !.fuel_tank = 1000000,
                                               !.hull_decay = 10,
                                               !.cargo = CargoAddResource(@, "Stone", 100000).cargo])]),
     stations |-> (1 :> [StationInit(1, StationX) EXCEPT
                            !.crew = (TraderId :> CrewMemberFrom("Trader")),
                            !.trader = Some(TraderId),
                            !.shipyard = YardAfterLight(StationX)]),
     fifo_events |-> (1 :> FifoNew)]

\* The same with the ship away, idle on the planet.
Away ==
    [Laden EXCEPT !.players[1].ships[1].position = PlanetX]

\* The same with a station that has bought Fuel (buy_resource) up to its
\* capacity but for the room of 5 units of Stone, and up to its capacity.
Crowded ==
    [Laden EXCEPT !.stations[1].cargo = CargoAddResource(@, "Fuel", 4978750).cargo]

Full ==
    [Laden EXCEPT !.stations[1].cargo = CargoAddResource(@, "Fuel", 5000000).cargo]

UnloadScenarios == {Laden, Away, Crowded, Full}

\* Market::init over the traded resources, and the game of an unload scenario.
InitUnloadVars ==
    /\ prices = [r \in TradeResources |-> BasePrice(r)]
    /\ rolls = 0
    /\ \E sc \in UnloadScenarios :
          /\ players = sc.players
          /\ stations = sc.stations
          /\ fifo_events = sc.fifo_events
    /\ channel = <<>>
    /\ due = [p \in PlayerIds |-> <<>>]
    /\ resp = [op |-> "none", player |-> 0, err |-> "ok", val |-> None]
    /\ ticks = 0
    /\ cmds = 0

\* ---- game.rs: the driver while a ship extracts ----
\* The ship extracts and one of its rates at least is positive.
PositiveRate(ship) ==
    /\ ship.state.kind = "Extracting"
    /\ \E r \in DOMAIN ship.state.rates : ship.state.rates[r] > 0

Digging ==
    \E p \in DOMAIN players : \E s \in DOMAIN players[p].ships :
        PositiveRate(players[p].ships[s])

\* The prospecting ships of one module, and one of two Miners, back on a
\* planet with 493 units of their cargo of 500 taken by Stone.
ExtractionScenarios ==
    {[sc EXCEPT !.players[1].ships[1].cargo = CargoAddResource(@, "Stone", 5800000).cargo] :
        sc \in {Prospecting(coord, setup) :
                   coord \in DOMAIN Planets,
                   setup \in {su \in ModuleSetups :
                                 \/ Len(su) = 1
                                 \/ su = << <<"Miner", 4>>, <<"Miner", 1>> >>}}}

InitExtractionVars ==
    /\ \E sc \in ExtractionScenarios :
          /\ players = sc.players
          /\ stations = sc.stations
          /\ fifo_events = sc.fifo_events
    /\ channel = <<>>
    /\ due = [p \in PlayerIds |-> <<>>]
    /\ resp = [op |-> "none", player |-> 0, err |-> "ok", val |-> None]
    /\ ticks = 0
    /\ cmds = 0
    /\ prices = [r \in MarketResources |-> BasePrice(r)]
    /\ rolls = MaxGameRolls

\* One iteration of the loop of Game::start in a run whose driver goes on for
\* as long as a ship extracts at a positive rate, and for MaxTicks iterations
\* otherwise.
ExtractionTick ==
    /\ ticks < MaxTicks \/ Digging
    /\ ThreadloopBody
    /\ ticks' = Min(ticks + 1, MaxTicks)
    /\ UNCHANGED notGameVars

\* ---- game.rs: the driver while events wait in the channel ----
\* One iteration of the loop of Game::start in a run whose driver goes on for
\* as long as the channel holds an event, and for MaxTicks iterations
\* otherwise.
DeliveryTick ==
    /\ ticks < MaxTicks \/ channel # <<>>
    /\ ThreadloopBody
    /\ ticks' = Min(ticks + 1, MaxTicks)
    /\ UNCHANGED notGameVars

(***************************************************************************)
(* A request in two steps (api.rs: get_player!, buy_resource).  The guards *)
(* get_player! takes (player_index, players, the player read for its lost  *)
(* flag) are dropped when the macro returns the Arc of the player; the     *)
(* handler takes player.write() afterwards, and the driver thread may run  *)
(* between the two.                                                        *)
(***************************************************************************)
\* A handler thread that runs no request.
NoRequest == [pc |-> "idle", player |-> 0, station |-> 0, resource |-> "", amnt |-> 0]

InitRequestIdle == reqs = [t \in Handlers |-> NoRequest]

\* buy_resource up to the end of get_player!: the reply when the macro
\* returns with an error, the request kept with the player's Arc otherwise.
BuyResourceGetPlayer(t, p, st, resource, amnt) ==
    /\ cmds < MaxCmds
    /\ reqs[t].pc = "idle"
    /\ IF GetPlayerErr(p) # "ok"
       THEN /\ Reply("buy_resource", p, GetPlayerErr(p), None)
            /\ UNCHANGED reqs
       ELSE /\ reqs' = [reqs EXCEPT ![t] = [pc |-> "got_player", player |-> p, station |-> st,
                                            resource |-> resource, amnt |-> amnt]]
            /\ cmds' = cmds + 1
            /\ UNCHANGED resp
    /\ UNCHANGED <<players, stations, channel, fifo_events, due, ticks, marketVars>>
    /\ UNCHANGED <<fifoVars, lockVars, cargoVars, registryVars, driverVars>>

\* buy_resource from get_station! on: the station, then player.write(),
\* station.write(), market.write() and Station::buy_resource.
BuyResourceWrite(t, u) ==
    /\ reqs[t].pc = "got_player"
    /\ LET p == reqs[t].player
           st == reqs[t].station
       IN IF Poisoned
          THEN /\ resp' = [op |-> "buy_resource", player |-> p, err |-> "panicked", val |-> None]
               /\ UNCHANGED <<players, stations, prices>>
          ELSE IF GetStationErr(p, st) # "ok"
          THEN /\ resp' = [op |-> "buy_resource", player |-> p, err |-> GetStationErr(p, st),
                           val |-> None]
               /\ UNCHANGED <<players, stations, prices>>
          ELSE LET r == StationBuyResource(stations[st], reqs[t].resource, reqs[t].amnt,
                                           players[p], prices, u)
               IN /\ resp' = [op |-> "buy_resource", player |-> p, err |-> r.err, val |-> r.val]
                  /\ players' = [players EXCEPT ![p] = r.player]
                  /\ stations' = [stations EXCEPT ![st] = r.station]
                  /\ prices' = r.prices
    /\ reqs' = [reqs EXCEPT ![t] = NoRequest]
    /\ UNCHANGED <<channel, fifo_events, due, ticks, cmds, rolls>>
    /\ UNCHANGED <<fifoVars, lockVars, cargoVars, registryVars, driverVars>>

\* A player with a trader on its station, and the money of less than one
\* tick of its wage left.
Broke ==
    [Trading(1) EXCEPT !.players[1].money = Wage([member_type |-> "Trader", rank |-> 1]) - 1]

RaceScenarios == {Trading(1), Broke}

InitRaceVars ==
    /\ prices = [r \in TradeResources |-> BasePrice(r)]
    /\ rolls = MaxGameRolls
    /\ \E sc \in RaceScenarios :
          /\ players = sc.players
          /\ stations = sc.stations
          /\ fifo_events = sc.fifo_events
    /\ channel = <<>>
    /\ due = [p \in PlayerIds |-> <<>>]
    /\ resp = [op |-> "none", player |-> 0, err |-> "ok", val |-> None]
    /\ ticks = 0
    /\ cmds = 0

\* ---- game.rs: the driver while a ship flies ----
Flying ==
    \E p \in DOMAIN players : \E s \in DOMAIN players[p].ships :
        players[p].ships[s].state.kind = "InFlight"

\* One iteration of the loop of Game::start in a run whose driver goes on for
\* as long as a ship is in flight, and for MaxTicks iterations otherwise.
FlightTick ==
    /\ ticks < MaxTicks \/ Flying
    /\ ThreadloopBody
    /\ ticks' = Min(ticks + 1, MaxTicks)
    /\ UNCHANGED notGameVars

(***************************************************************************)
(* The specifications: each one drives one part of the program and leaves  *)
(* the variables of the others at rest.                                    *)
(***************************************************************************)
InitFifo == InitFifoVars /\ InitLockVars /\ InitCargoIdle /\ InitMarketVars /\ InitGameIdle /\ InitRegistryIdle /\ InitDriverIdle /\ InitRequestIdle

NextFifo == Push \/ Pop \/ RemoveAll

SpecFifo == InitFifo /\ [][NextFifo]_vars

InitLocks == InitLockVars /\ InitFifoVars /\ InitCargoIdle /\ InitMarketVars /\ InitGameIdle /\ InitRegistryIdle /\ InitDriverIdle /\ InitRequestIdle

NextLocks ==
    \/ \E t \in Handlers, kind \in HandlerKinds : StartRequest(t, kind)
    \/ \E t \in Handlers : HandlerStep(t)
    \/ DriverStep

SpecLocks == InitLocks /\ [][NextLocks]_vars

InitCargo == InitCargoVars /\ InitFifoVars /\ InitLockVars /\ InitMarketVars /\ InitGameIdle /\ InitRegistryIdle /\ InitDriverIdle /\ InitRequestIdle

NextCargo ==
    \/ \E res \in CargoInputs, amnt \in CargoAmounts : AddResource(res, amnt)
    \/ \E res \in CargoInputs, amnt \in CargoAmounts : Unload(res, amnt)

SpecCargo == InitCargo /\ [][NextCargo]_vars

InitMarket == InitMarketVars /\ InitFifoVars /\ InitLockVars /\ InitCargoIdle /\ InitGameIdle /\ InitRegistryIdle /\ InitDriverIdle /\ InitRequestIdle

NextMarket == UpdatePrices

SpecMarket == InitMarket /\ [][NextMarket]_vars

Init == InitGameVars /\ InitMarketVars /\ InitFifoVars /\ InitLockVars /\ InitCargoIdle /\ InitRegistryIdle /\ InitDriverIdle /\ InitRequestIdle

Next ==
    \/ Tick
    \/ \E name \in PlayerIds : NewPlayer(name)
    \/ \E p \in PlayerIds : GetSyslogs(p)
    \/ \E p \in PlayerIds, id \in ShipIds, dest \in Dests : AskNavigate(p, id, dest)
    \/ \E p \in PlayerIds, st \in StationIds, id \in ShipIds : RefuelShipCmd(p, st, id)
    \/ \E p \in PlayerIds, st \in StationIds, id \in ShipIds : RepairShipCmd(p, st, id)
    \/ \E p \in PlayerIds, st \in StationIds, id \in ShipIds, upgrade \in ShipUpgrades :
          ShipyardBuyUpgrade(p, st, id, upgrade)
    \/ \E p \in PlayerIds, st \in StationIds, id \in ShipIds :
          BuyCrewUpgrade(p, st, id, PilotId)

Spec == Init /\ [][Next]_vars

InitTrade == InitTradeVars /\ InitFifoVars /\ InitLockVars /\ InitCargoIdle /\ InitRegistryIdle /\ InitDriverIdle /\ InitRequestIdle

NextTrade ==
    \/ \E p \in PlayerIds, st \in StationIds, resource \in TradeResources,
          amnt \in TradeAmounts, u \in PriceMoves :
          BuyResource(p, st, resource, amnt, u)
    \/ \E p \in PlayerIds, st \in StationIds, resource \in TradeResources,
          amnt \in TradeAmounts, u \in PriceMoves :
          SellResource(p, st, resource, amnt, u)

SpecTrade == InitTrade /\ [][NextTrade]_vars

InitShipyardSpec == InitYardVars /\ InitMarketVars /\ InitFifoVars /\ InitLockVars /\ InitCargoIdle /\ InitRegistryIdle /\ InitDriverIdle /\ InitRequestIdle

NextShipyard ==
    \/ \E p \in PlayerIds, st \in StationIds, id \in AskedShipIds : ShipyardBuyShip(p, st, id)
    \/ \E p \in PlayerIds, st \in StationIds, id \in AskedShipIds, upgrade \in ShipUpgrades :
          ShipyardBuyUpgrade(p, st, id, upgrade)

SpecShipyard == InitShipyardSpec /\ [][NextShipyard]_vars

InitCrew == InitCrewVars /\ InitFifoVars /\ InitLockVars /\ InitCargoIdle /\ InitRegistryIdle /\ InitDriverIdle /\ InitRequestIdle

NextCrew ==
    \/ Tick
    \/ \E p \in PlayerIds, st \in StationIds, crewtype \in CrewMemberTypes :
          HireCrew(p, st, crewtype)
    \/ \E p \in PlayerIds, st \in StationIds, crew_id \in AskedCrewIds :
          AssignTrader(p, st, crew_id)
    \/ \E p \in PlayerIds, st \in StationIds, crew_id \in AskedCrewIds, id \in ShipIds :
          AssignPilot(p, st, crew_id, id)
    \/ \E p \in PlayerIds, st \in StationIds, crew_id \in AskedCrewIds, id \in ShipIds,
          modid \in AskedModuleIds :
          AssignOperator(p, st, crew_id, id, modid)
    \/ \E p \in PlayerIds, st \in StationIds, id \in ShipIds, modtype \in ShipModuleTypes :
          BuyShipModule(p, st, id, modtype)
    \/ \E p \in PlayerIds, st \in StationIds : UpgradeStationTrader(p, st)
    \/ \E p \in PlayerIds, st \in StationIds, id \in ShipIds, crew_id \in AskedCrewIds :
          BuyCrewUpgrade(p, st, id, crew_id)
    \/ \E p \in PlayerIds, id \in ShipIds, dest \in CrewDests : AskNavigate(p, id, dest)

SpecCrew == InitCrew /\ [][NextCrew]_vars

InitMining == InitMiningVars /\ InitFifoVars /\ InitLockVars /\ InitCargoIdle /\ InitRegistryIdle /\ InitDriverIdle /\ InitRequestIdle

NextMining ==
    \/ Tick
    \/ \E p \in PlayerIds, id \in ShipIds, dest \in MiningDests : AskNavigate(p, id, dest)
    \/ \E p \in PlayerIds, id \in ShipIds : StartExtractionCmd(p, id)
    \/ \E p \in PlayerIds, id \in ShipIds : StopExtractionCmd(p, id)
    \/ \E p \in PlayerIds, st \in StationIds, crew_id \in AskedCrewIds, id \in ShipIds :
          AssignPilot(p, st, crew_id, id)

SpecMining == InitMining /\ [][NextMining]_vars

InitRegistry ==
    InitRegistryIdle /\ InitDriverIdle /\ InitRequestIdle /\ InitGameIdle /\ InitMarketVars /\ InitFifoVars /\ InitLockVars /\ InitCargoIdle

NextRegistry ==
    \/ \E t \in Handlers, name \in PlayerNames : NewPlayerCheck(t, name)
    \/ \E t \in Handlers, coord \in StationCoordDraws, id \in StationIdDraws,
          draw \in PlanetDraws, key \in KeyDraws :
          NewPlayerStation(t, coord, id, draw, key)
    \/ \E t \in Handlers : NewPlayerIndex(t)
    \/ \E t \in Handlers : NewPlayerInsert(t)

SpecRegistry == InitRegistry /\ [][NextRegistry]_vars

InitDriver ==
    InitGameVars /\ InitMarketVars /\ InitFifoVars /\ InitLockVars /\ InitCargoIdle
        /\ InitRegistryIdle /\ InitDriverIdle /\ InitRequestIdle

NextDriver ==
    \/ DriverTest
    \/ DriverLoop
    \/ DriverSleep
    \/ Stop
    \/ \E p \in PlayerIds, id \in ShipIds, dest \in Dests : AskNavigate(p, id, dest)

SpecDriver == InitDriver /\ [][NextDriver]_vars

InitProspect ==
    InitProspectVars /\ InitFifoVars /\ InitLockVars /\ InitCargoIdle
        /\ InitRegistryIdle /\ InitDriverIdle /\ InitRequestIdle

NextProspect ==
    \/ Tick
    \/ \E p \in PlayerIds, id \in ShipIds : StartExtractionCmd(p, id)
    \/ \E p \in PlayerIds, id \in ShipIds : StopExtractionCmd(p, id)

SpecProspect == InitProspect /\ [][NextProspect]_vars

InitExtraction ==
    InitExtractionVars /\ InitFifoVars /\ InitLockVars /\ InitCargoIdle
        /\ InitRegistryIdle /\ InitDriverIdle /\ InitRequestIdle

\* The loop of Game::start runs for ever (game.rs 64-67): the driver is fair.
\* No request stops an extraction here.
NextExtraction ==
    \/ ExtractionTick
    \/ \E p \in PlayerIds, id \in ShipIds : StartExtractionCmd(p, id)

SpecExtraction == InitExtraction /\ [][NextExtraction]_vars /\ WF_vars(ExtractionTick)

\* New players (costs 0, no ship: the loop over the players leaves them as
\* they are) and the driver; the market has had its roll.
InitDelivery ==
    /\ InitRegistryIdle /\ InitDriverIdle /\ InitRequestIdle /\ InitGameIdle
    /\ prices = [r \in MarketResources |-> BasePrice(r)]
    /\ rolls = MaxGameRolls
    /\ InitFifoVars /\ InitLockVars /\ InitCargoIdle

\* The loop of Game::start runs for ever (game.rs 64-67): the driver is fair.
NextDelivery ==
    \/ DeliveryTick
    \/ \E t \in Handlers, name \in PlayerNames : NewPlayerCheck(t, name)
    \/ \E t \in Handlers, coord \in StationCoordDraws, key \in KeyDraws :
          NewPlayerStation(t, coord, CHOOSE id \in StationIdDraws : TRUE,
                           CHOOSE draw \in PlanetDraws : TRUE, key)
    \/ \E t \in Handlers : NewPlayerIndex(t)
    \/ \E t \in Handlers : NewPlayerInsert(t)

SpecDelivery == InitDelivery /\ [][NextDelivery]_vars /\ WF_vars(DeliveryTick)

\* The same with requests for the events made with the keys handed out.
NextIsolation ==
    \/ NextDelivery
    \/ \E key \in KeyDraws : GetSyslogsWithKey(key)

SpecIsolation == InitDelivery /\ [][NextIsolation]_vars

InitRace ==
    InitRaceVars /\ InitFifoVars /\ InitLockVars /\ InitCargoIdle
        /\ InitRegistryIdle /\ InitDriverIdle /\ InitRequestIdle

\* The handler threads of the server and the driver thread.
NextRace ==
    \/ Tick
    \/ \E t \in Handlers, p \in PlayerIds, st \in StationIds, resource \in TradeResources,
          amnt \in TradeAmounts :
          BuyResourceGetPlayer(t, p, st, resource, amnt)
    \/ \E t \in Handlers, u \in PriceMoves : BuyResourceWrite(t, u)

SpecRace == InitRace /\ [][NextRace]_vars

\* The one-player world of Spec, the market after its roll.
InitFlight ==
    /\ InitGameVars
    /\ prices = [r \in MarketResources |-> BasePrice(r)]
    /\ rolls = MaxGameRolls
    /\ InitFifoVars /\ InitLockVars /\ InitCargoIdle
    /\ InitRegistryIdle /\ InitDriverIdle /\ InitRequestIdle

\* The loop of Game::start runs for ever (game.rs 64-67): the driver is fair.
NextFlight ==
    \/ FlightTick
    \/ \E p \in PlayerIds, id \in ShipIds, dest \in Dests : AskNavigate(p, id, dest)
    \/ \E p \in PlayerIds, st \in StationIds, id \in ShipIds : RefuelShipCmd(p, st, id)
    \/ \E p \in PlayerIds, st \in StationIds, id \in ShipIds : RepairShipCmd(p, st, id)
    \/ \E p \in PlayerIds, st \in StationIds, id \in ShipIds :
          BuyCrewUpgrade(p, st, id, PilotId)

SpecFlight == InitFlight /\ [][NextFlight]_vars /\ WF_vars(FlightTick)

InitUnload ==
    InitUnloadVars /\ InitFifoVars /\ InitLockVars /\ InitCargoIdle
        /\ InitRegistryIdle /\ InitDriverIdle /\ InitRequestIdle

NextUnload ==
    \/ \E p \in PlayerIds, id \in ShipIds, resource \in UnloadResources, amnt \in UnloadAmounts :
          UnloadShipCargo(p, id, resource, amnt)
    \/ \E p \in PlayerIds, st \in StationIds, resource \in TradeResources,
          amnt \in TradeAmounts, u \in PriceMoves :
          BuyResource(p, st, resource, amnt, u)
    \/ \E p \in PlayerIds, st \in StationIds, resource \in TradeResources,
          amnt \in TradeAmounts, u \in PriceMoves :
          SellResource(p, st, resource, amnt, u)

SpecUnload == InitUnload /\ [][NextUnload]_vars

(***************************************************************************)
(* The properties.                                                         *)
(***************************************************************************)
\* The last n values pushed, in push order.
LastPushed(n) == [i \in 1 .. n |-> pushed - n + i]

\* C1: the queue never holds more than SYSLOG_FIFO_MAX_SIZE entries and always
\* holds exactly the most recent values still due, oldest first (a push on a
\* full queue drops only the oldest); pop returns the oldest; remove_all
\* returns the entries oldest first and leaves the queue empty, and after k
\* pushes with no pop between them it returns the last min(k, 10) values.
C1_FifoContract ==
    /\ fifo.len <= SYSLOG_FIFO_MAX_SIZE
    /\ FifoContents(fifo) = shadow
    /\ fifo_op = "push" /\ Len(fifo_due) = SYSLOG_FIFO_MAX_SIZE
          => FifoContents(fifo) = Append(Tail(fifo_due), pushed)
    /\ fifo_op = "pop"
          => fifo_out = (IF fifo_due = <<>> THEN None ELSE Some(Head(fifo_due)))
    /\ fifo_op = "remove_all"
          => /\ fifo_out = fifo_due
             /\ fifo.len = 0
             /\ drained_k >= 0
                   => fifo_out = LastPushed(Min(drained_k, SYSLOG_FIFO_MAX_SIZE))

\* C1 witness: twelve pushes in a row, then remove_all returns #3 .. #12.
C1_Witness ==
    /\ fifo_op = "remove_all"
    /\ drained_k = 12
    /\ fifo_out = <<3, 4, 5, 6, 7, 8, 9, 10, 11, 12>>

\* Thread t is stopped at an acquisition that thread u's guard keeps from it.
WaitsFor(t, u) ==
    /\ t # u
    /\ th_prog[t] # <<>>
    /\ ~CanDo(t, Head(th_prog[t]))
    /\ HoldsAgainst(u, Head(th_prog[t]))

\* C2: the system is deadlock-free: no interleaving of handlers and driver
\* ticks reaches a state in which two threads each wait for a lock the other
\* holds (neither can ever proceed).
C2_DeadlockFree ==
    ~ \E t, u \in Threads : WaitsFor(t, u) /\ WaitsFor(u, t)

\* C6: for every cargo, after any sequence of operations, 0 <= usage <=
\* capacity and usage differs from the sum of volume * quantity over the
\* stored resources by at most 0.001.
C6_CargoConsistent ==
    /\ 0 <= cargo.usage
    /\ cargo.usage <= cargo.capacity
    /\ Abs(cargo.usage - CargoVolumeSum(cargo)) <= CargoUnit \div 1000

\* C10: starting from the base prices, after any number of update_prices
\* calls with any sampled changes, every resource price is strictly positive.
C10_PricesPositive ==
    \A r \in MarketResources : prices[r] > 0

\* Number of entries of the sequence s equal to e.
Count(s, e) == Cardinality({i \in 1 .. Len(s) : s[i] = e})

\* Number of events e the step has added to the queue of player p.
Added(p, e) == Count(Visible(p)', e) - Count(Visible(p), e)

C4_EventsVisible ==
    \A p \in DOMAIN players : Visible(p) = due[p]

\* C5: for every owned ship, in every reachable state,
\* 0 <= fuel_tank <= fuel_tank_capacity and 0 <= hull_decay <= hull_decay_capacity.
C5_ShipBounds ==
    \A p \in DOMAIN players : \A s \in DOMAIN players[p].ships :
        LET ship == players[p].ships[s]
        IN /\ 0 <= ship.fuel_tank
           /\ ship.fuel_tank <= ship.fuel_tank_capacity
           /\ 0 <= ship.hull_decay
           /\ ship.hull_decay <= ship.hull_decay_capacity

\* C7: whenever a tick ends a flight normally (the ship is back to Idle and
\* ShipFlightFinished is put in the queue), the position of the ship is the
\* destination of the flight.
C7_FinishedAtDestination ==
    [][\A p \in DOMAIN players : \A s \in DOMAIN players[p].ships :
          (/\ ticks' = ticks + 1
           /\ players[p].ships[s].state.kind = "InFlight"
           /\ s \in DOMAIN players'[p].ships
           /\ players'[p].ships[s].state = Idle
           /\ Added(p, Event("ShipFlightFinished", s)) > 0)
             => players'[p].ships[s].position
                   = players[p].ships[s].state.data.destination]_vars

\* C8: a ship whose fuel_tank reaches 0 during a flight tick is destroyed: in
\* that tick it leaves the roster of its owner and no ShipFlightFinished is
\* put in the queue for it.
C8_FuelEmptyDestroyed ==
    [][\A p \in DOMAIN players : \A s \in DOMAIN players[p].ships :
          (/\ ticks' = ticks + 1
           /\ players[p].ships[s].state.kind = "InFlight"
           /\ players[p].ships[s].fuel_tank > 0
           /\ UpdateFlight(players[p].ships[s]).ship.fuel_tank = 0)
             => /\ s \notin DOMAIN players'[p].ships
                /\ Added(p, Event("ShipFlightFinished", s)) = 0]_vars

\* C9: when a flight tick raises the hull_decay of a ship in flight to its
\* capacity or above, that same tick removes the ship from the roster, puts
\* exactly one ShipDestroyed in the owner's queue and no ShipFlightFinished;
\* and every tick that ends a flight puts exactly one of the two events.
C9_HullDestroyed ==
    [][\A p \in DOMAIN players : \A s \in DOMAIN players[p].ships :
          (ticks' = ticks + 1 /\ players[p].ships[s].state.kind = "InFlight")
             => LET ship == players[p].ships[s]
                    gone == s \notin DOMAIN players'[p].ships
                    ended == gone \/ players'[p].ships[s].state = Idle
                    nD == Added(p, Event("ShipDestroyed", s))
                    nF == Added(p, Event("ShipFlightFinished", s))
                IN /\ UpdateFlight(ship).ship.hull_decay >= ship.hull_decay_capacity
                      => (gone /\ nD = 1 /\ nF = 0)
                   /\ ended => (nD + nF = 1)
                   /\ ~ended => (nD + nF = 0)]_vars

\* C9 witness: the ship has left the roster and its owner's queue holds one
\* ShipDestroyed for it.
C9_Witness ==
    \E p \in DOMAIN players :
        /\ 1 \notin DOMAIN players[p].ships
        /\ Count(Visible(p), Event("ShipDestroyed", 1)) = 1
        /\ Count(Visible(p), Event("ShipFlightFinished", 1)) = 0

\* C11: after any sequence of market buys and sells of admissible amounts,
\* every market price is strictly greater than 0: the factor 1 - dec a sell
\* applies to the price is always positive.
C11_TradesKeepPricesPositive ==
    \A r \in DOMAIN prices : prices[r] > 0

\* C13: every successful market buy of the clamped amount q at the pre-trade
\* price p with the fee rate f of the trader's rank takes exactly q * p from
\* the player's money, adds q * (1 - f) units of the resource to the station
\* cargo and reports the fees q * f * p, so that the change of money, the
\* value at p of the cargo gained and the fees sum to 0 (within the rounding
\* of one money unit); the rank of the trader enters through f only.
C13_BuyAccounting ==
    [][(cmds' = cmds + 1 /\ resp'.op = "buy_resource" /\ resp'.err = "ok")
          => \E st \in DOMAIN stations, amnt \in TradeAmounts :
                LET pl == resp'.player
                    tx == resp'.val[1]
                    r == tx.added_cargo[1][1]
                    gained == tx.added_cargo[1][2]
                    p == prices[r]
                    f == FeeRate(stations[st].crew[stations[st].trader[1]].rank)
                    q == Min(amnt, (stations[st].cargo.capacity - stations[st].cargo.usage)
                                       \div Volume(r))
                    dmoney == players'[pl].money - players[pl].money
                IN /\ dmoney = -Cost(q, p)
                   /\ tx.removed_money = Some(Cost(q, p))
                   /\ gained = q - MulDiv(q, f, 10000)
                   /\ Stock(stations'[st].cargo, r) - Stock(stations[st].cargo, r) = gained
                   /\ tx.fees = Cost(MulDiv(q, f, 10000), p)
                   /\ Abs(dmoney + Cost(gained, p) + tx.fees) <= 1]_vars

\* C13 witness: a rank-2 trader has bought HullPlate: the price has moved,
\* the cargo holds the amount net of fees and the player has paid.
C13_Witness ==
    /\ resp.op = "buy_resource"
    /\ resp.err = "ok"
    /\ stations[1].crew[TraderId].rank = 2
    /\ prices["HullPlate"] > BasePrice("HullPlate")
    /\ Stock(stations[1].cargo, "HullPlate") = resp.val[1].added_cargo[1][2]
    /\ resp.val[1].fees > 0
    /\ players[1].money = INIT_MONEY - resp.val[1].removed_money[1]

\* C12: the shipyard of every station holds exactly 3 ships in every
\* reachable state.  A successful buy_ship leaves the bought ship in the
\* roster of the player under its id with fuel_tank = fuel_tank_capacity and
\* takes exactly its price, 300 * reactor + 3 * fuel capacity + 10 * cargo
\* capacity + 5 * hull capacity, from the money; a buy_ship answered
\* ShipNotFound or NotEnoughMoney changes neither shipyard, roster nor money.
C12_BuyShip ==
    /\ [](\A st \in DOMAIN stations : Len(stations[st].shipyard) = 3)
    /\ [][(cmds' = cmds + 1 /\ resp'.op = "buy_ship")
             => LET p == resp'.player
                IN IF resp'.err = "ok"
                   THEN \E st \in DOMAIN stations :
                           \E n \in 1 .. Len(stations[st].shipyard) :
                              LET sold == stations[st].shipyard[n]
                                  id == resp'.val[1]
                              IN /\ sold.id = id
                                 /\ Len(stations'[st].shipyard) = 3
                                 /\ id \in DOMAIN players'[p].ships
                                 /\ players'[p].ships[id].id = id
                                 /\ players'[p].ships[id].fuel_tank
                                       = players'[p].ships[id].fuel_tank_capacity
                                 /\ players'[p].ships[id].fuel_tank = sold.fuel_tank_capacity * 5000
                                 /\ players'[p].money
                                       = players[p].money
                                         - (40 * ((300 * sold.reactor_power)
                                                  + (3 * sold.fuel_tank_capacity)
                                                  + (10 * sold.cargo_capacity)
                                                  + (5 * sold.hull_decay_capacity)))
                   ELSE /\ resp'.err \in {"ShipNotFound", "NotEnoughMoney"}
                        /\ UNCHANGED <<players, stations>>]_vars

\* C12 witness: the new player has bought the light ship for 23300 and is
\* left with 6700; the ship has a full tank and the shipyard has 3 ships, the
\* last one drawn by Ship::random.
C12_Witness ==
    /\ resp.op = "buy_ship"
    /\ resp.err = "ok"
    /\ resp.val = Some(YardIds[1])
    /\ players[1].money = 40 * 6700
    /\ players[1].ships[YardIds[1]].fuel_tank = 5000000
    /\ Len(stations[1].shipyard) = 3
    /\ stations[1].shipyard[3].id \in RandomShipIds

\* The ranks of the crew members of the game, by where they are: each is
\* <<place, id, rank>>, the place being the id of the ship, or 0 for the
\* crew of a station.
CrewRanks(sts, pls) ==
    UNION {{<<0, c, sts[st].crew[c].rank>> : c \in DOMAIN sts[st].crew} :
              st \in DOMAIN sts}
    \cup UNION {UNION {{<<s, c, pls[p].ships[s].crew[c].rank>> :
                           c \in DOMAIN pls[p].ships[s].crew} :
                          s \in DOMAIN pls[p].ships} :
                   p \in DOMAIN pls}

\* C14: every successful crew rank-up (of a member of a ship's crew or of the
\* station's trader) leaves the rank of the member strictly higher than it
\* was, and the costs of the player strictly greater than before the command.
C14_RankUpRaisesCosts ==
    [][(/\ cmds' = cmds + 1
        /\ resp'.op \in {"crew_upgrade", "upgrade_trader"}
        /\ resp'.err = "ok")
          => /\ \E m \in CrewRanks(stations, players) :
                   /\ <<m[1], m[2], m[3] + 1>> \in CrewRanks(stations', players')
                   /\ CrewRanks(stations', players') \ {<<m[1], m[2], m[3] + 1>>}
                         = CrewRanks(stations, players) \ {m}
             /\ players'[resp'.player].costs > players[resp'.player].costs]_vars

\* The player has less money than 60 seconds of its costs.
FundsLow(pl) == pl.money < (pl.costs * 1200)

\* Number of LowFunds events in the sequence s.
LowFundsIn(s) == Cardinality({i \in 1 .. Len(s) : s[i].type = "LowFunds"})

\* C15: a step emits a LowFunds event for a player exactly when it takes the
\* player's money from at least 60 seconds of costs to less than that,
\* whether the step is the wage billing of a tick, a purchase that lowers
\* the money or a hire or rank-up that raises the costs; it emits none while
\* the money stays above or stays below.
C15_LowFundsAtEveryCrossing ==
    [][\A p \in (DOMAIN players) \cap (DOMAIN players') :
          LowFundsIn(Visible(p)') - LowFundsIn(Visible(p))
             = (IF ~FundsLow(players[p]) /\ FundsLow(players'[p]) THEN 1 ELSE 0)]_vars

C17_ShipStateGuards ==
    [][\A p \in DOMAIN players, id \in ShipIds :
          (cmds' = cmds + 1 /\ resp'.player = p /\ id \in DOMAIN players[p].ships)
          => LET old == players[p].ships[id]
                 new == players'[p].ships[id]
                 err == resp'.err
             IN /\ id \in DOMAIN players'[p].ships
                /\ old.state.kind = "InFlight" => new.state = old.state
                /\ (resp'.op \in {"navigate", "start_extraction", "stop_extraction"}
                    /\ err # "ok") => new = old
                /\ resp'.op = "navigate" =>
                      /\ err \in {"ok", "ShipNotIdle", "NoPilotAssigned", "NullDistance",
                                  "CannotPerformTravel"}
                      /\ err = "ShipNotIdle" <=> old.state # Idle
                      /\ err = "NoPilotAssigned" <=> (old.state = Idle /\ old.pilot = None)
                      /\ err = "ok" =>
                            /\ new.state.kind = "InFlight"
                            /\ new.state.data.destination # old.position
                            /\ old.fuel_tank >=
                                  ComputeCosts(old, new.state.data.destination).cost[1].fuel_consumption
                            /\ old.hull_decay_capacity - old.hull_decay >=
                                  ComputeCosts(old, new.state.data.destination).cost[1].hull_usage
                            /\ [new EXCEPT !.state = Idle] = old
                /\ resp'.op = "start_extraction" =>
                      /\ err \in {"ok", "ShipNotIdle", "CannotExtractWithoutPlanet"}
                      /\ err = "ok" <=> (old.state = Idle /\ old.position \in DOMAIN Planets)
                      /\ err = "ShipNotIdle" <=> old.state # Idle
                      /\ err = "ok" => new.state.kind = "Extracting"
                /\ resp'.op = "stop_extraction" =>
                      /\ err \in {"ok", "ShipNotExtracting"}
                      /\ err = "ok" <=> old.state.kind = "Extracting"
                      /\ err = "ok" => new = [old EXCEPT !.state = Idle]]_vars

\* C17 witness: a stop of extraction was refused to a ship in flight.
C17_Witness ==
    /\ resp.op = "stop_extraction"
    /\ resp.err = "ShipNotExtracting"
    /\ \E p \in DOMAIN players : \E id \in DOMAIN players[p].ships :
          players[p].ships[id].state.kind = "InFlight"

\* The coordinates of the stations of the galaxy.
StationCoords == {stations[st].position : st \in DOMAIN stations}

\* C18: a ship that is Extracting is on the coordinate of a planet of the
\* galaxy, which is no coordinate of a station, and its position does not
\* change while it stays Extracting.
C18_ExtractingOnPlanet ==
    /\ [](\A p \in DOMAIN players : \A id \in DOMAIN players[p].ships :
             players[p].ships[id].state.kind = "Extracting"
                => /\ players[p].ships[id].position \in DOMAIN Planets
                   /\ players[p].ships[id].position \notin StationCoords)
    /\ [][\A p \in (DOMAIN players) \cap (DOMAIN players') :
             \A id \in (DOMAIN players[p].ships) \cap (DOMAIN players'[p].ships) :
                (/\ players[p].ships[id].state.kind = "Extracting"
                 /\ players'[p].ships[id].state.kind = "Extracting")
                   => players'[p].ships[id].position = players[p].ships[id].position]_vars

\* C18 witness: after some ticks of the game a ship is Extracting on the
\* planet.
C18_Witness ==
    \E p \in DOMAIN players : \E id \in DOMAIN players[p].ships :
        /\ players[p].ships[id].state.kind = "Extracting"
        /\ players[p].ships[id].position = PlanetX
        /\ ticks > 0

\* C19: crew reference integrity.  The pilot of a ship, when set, is a key of
\* the crew of the ship and that member is a Pilot; the operator of a module,
\* when set, is a key of the crew of the same ship and that member is an
\* Operator; the trader of a station, when set, is a key of the crew of the
\* station.
C19_CrewReferences ==
    /\ \A p \in DOMAIN players : \A s \in DOMAIN players[p].ships :
          LET ship == players[p].ships[s]
          IN /\ ship.pilot # None =>
                   /\ ship.pilot[1] \in DOMAIN ship.crew
                   /\ ship.crew[ship.pilot[1]].member_type = "Pilot"
             /\ \A m \in DOMAIN ship.modules :
                   ship.modules[m].operator # None =>
                      /\ ship.modules[m].operator[1] \in DOMAIN ship.crew
                      /\ ship.crew[ship.modules[m].operator[1]].member_type = "Operator"
    /\ \A st \in DOMAIN stations :
          stations[st].trader # None => stations[st].trader[1] \in DOMAIN stations[st].crew

\* The places of the game where the CrewId c is a key: 0 for idle_crew and
\* -1 for crew of a station, and the ids of the ships with c in their crew.
CrewPlaces(c) ==
    {0 : st \in {x \in DOMAIN stations : c \in DOMAIN stations[x].idle_crew}}
    \cup {0 - 1 : st \in {x \in DOMAIN stations : c \in DOMAIN stations[x].crew}}
    \cup UNION {{s \in DOMAIN players[p].ships : c \in DOMAIN players[p].ships[s].crew} :
                   p \in DOMAIN players}

\* C20: an assign_pilot command succeeds only for an id of idle_crew whose
\* member is a Pilot and a ship without pilot; on success the member has
\* moved from idle_crew to the crew of the ship, the ship has it as pilot and
\* its stats are those of the new crew; refused as CrewMemberNotIdle,
\* WrongCrewType or CrewNotNeeded it leaves idle_crew and the ship as they
\* were.  And every crew member hired is in exactly one of idle_crew, the
\* crew of the station and the crew of one ship.
C20_OnboardPilot ==
    /\ [](\A c \in AskedCrewIds : Cardinality(CrewPlaces(c)) <= 1)
    /\ [][\A p \in DOMAIN players, st \in DOMAIN stations, s \in ShipIds :
             (/\ cmds' = cmds + 1
              /\ resp'.op = "assign_pilot"
              /\ resp'.player = p
              /\ s \in DOMAIN players[p].ships
              /\ resp'.err \in {"ok", "CrewMemberNotIdle", "WrongCrewType", "CrewNotNeeded"})
                => LET old == players[p].ships[s]
                       new == players'[p].ships[s]
                   IN IF resp'.err = "ok"
                      THEN /\ old.pilot = None
                           /\ new.pilot # None
                           /\ new.pilot[1] \in DOMAIN stations[st].idle_crew
                           /\ stations[st].idle_crew[new.pilot[1]].member_type = "Pilot"
                           /\ new.pilot[1] \notin DOMAIN stations'[st].idle_crew
                           /\ new.pilot[1] \in DOMAIN new.crew
                           /\ new.crew[new.pilot[1]] = stations[st].idle_crew[new.pilot[1]]
                           /\ new = UpdatePerfStats(new)
                      ELSE /\ stations'[st].idle_crew = stations[st].idle_crew
                           /\ new = old]_vars

\* C21: an assign_operator command succeeds only for an id of idle_crew whose
\* member is an Operator and a module of the ship that has no operator; for a
\* member of another type it is refused with WrongCrewType carrying the type
\* expected, Operator; for a module the ship has not, with NoSuchModule; for
\* a module that has its operator, with CrewNotNeeded; and a refusal leaves
\* idle_crew and the ship, its crew and modules, as they were.
C21_OnboardOperator ==
    [][\A p \in DOMAIN players, st \in DOMAIN stations, s \in ShipIds :
          (/\ cmds' = cmds + 1
           /\ resp'.op = "assign_operator"
           /\ resp'.player = p
           /\ s \in DOMAIN players[p].ships
           /\ resp'.err \notin {"NoPlayerWithKey", "PlayerLost", "NoSuchStation"})
             => LET old == players[p].ships[s]
                    new == players'[p].ships[s]
                    idle == stations[st].idle_crew
                IN /\ resp'.err \in {"ok", "CrewMemberNotIdle", "WrongCrewType",
                                     "NoSuchModule", "CrewNotNeeded"}
                   /\ resp'.err = "WrongCrewType" => resp'.val = Some("Operator")
                   /\ resp'.err = "ok" =>
                         \E c \in DOMAIN idle, m \in DOMAIN old.modules :
                            /\ idle[c].member_type = "Operator"
                            /\ old.modules[m].operator = None
                            /\ new.modules[m].operator = Some(c)
                            /\ c \in DOMAIN new.crew
                            /\ c \notin DOMAIN stations'[st].idle_crew
                   /\ resp'.err # "ok" =>
                         /\ stations'[st].idle_crew = idle
                         /\ new = old]_vars

\* The replies of the new_player calls that succeeded.
Created == {i \in 1 .. Len(np_replies) : np_replies[i].err = "ok"}

\* No new_player call is in progress.
RegistryAtRest == \A t \in Handlers : np[t].pc = "idle"

\* C22: players are never deleted or replaced: once the new_player calls have
\* returned, and the names they succeeded for are distinct, every player
\* created is in the player map under the id it was given, with its own name
\* and key, and every key of the key index maps to the id of the player that
\* owns the key.
C22_PlayersNeverReplaced ==
    (/\ RegistryAtRest
     /\ \A i, j \in Created : np_replies[i].name = np_replies[j].name => i = j)
        => /\ \A i \in Created :
                 /\ np_replies[i].id \in DOMAIN registry
                 /\ registry[np_replies[i].id].name = np_replies[i].name
                 /\ registry[np_replies[i].id].key = np_replies[i].key
           /\ \A k \in DOMAIN player_index :
                 /\ player_index[k] \in DOMAIN registry
                 /\ registry[player_index[k]].key = k

\* C23: names are unique under concurrency: of the new_player calls made with
\* one name at most one succeeds, and once the calls have returned the galaxy
\* holds one station and the key index one entry for each name in use.
C23_NamesUnique ==
    /\ \A i, j \in Created : np_replies[i].name = np_replies[j].name => i = j
    /\ (RegistryAtRest /\ \A t \in Handlers : np[t].pc \notin {"blocked", "panicked"})
          => LET names == {registry[id].name : id \in DOMAIN registry}
             IN /\ Cardinality({c \in DOMAIN galaxy.objects :
                                   galaxy.objects[c].kind = "BaseStation"}) = Cardinality(names)
                /\ Cardinality(DOMAIN player_index) = Cardinality(names)

\* C24: a sector is generated at most once: whatever the number of stations
\* created in a sector, generate_sector has run at most once on it and it holds
\* at most PLANETS_PER_SECTOR planets.
C24_SectorGeneratedOnce ==
    \A s \in SectorStarts :
        /\ generated[s] <= 1
        /\ Cardinality({c \in DOMAIN galaxy.objects :
                           /\ compute_sector(c)[1] = s
                           /\ galaxy.objects[c].kind = "Planet"}) <= PLANETS_PER_SECTOR

\* C25: once the stop signal is sent, the driver performs exactly one more
\* full tick and then exits: when the driver thread has returned, one
\* threadloop run was completed since the signal was sent.
C25_OneFinalTick == driver_pc = "exited" => stop_ticks = 1

\* C26: a market command on a station without an assigned trader returns
\* NoTraderAssigned.  With a trader, a buy of the amount clamped to
\* cargo.space_for(r) returns BuyNothing when the clamped amount is 0; a sell
\* of the amount clamped to the stock returns SellNothing when the stock is
\* absent or 0 and, when it succeeds, credits amnt * price * (1 - fee) and
\* removes exactly amnt from the station cargo.  Every failure leaves the
\* money, the station cargo and the prices unchanged.
C26_MarketCommands ==
    [][\A p \in PlayerIds, st \in StationIds, resource \in TradeResources,
          amnt \in TradeAmounts, u \in PriceMoves :
          (/\ GetPlayerErr(p) = "ok" /\ GetStationErr(p, st) = "ok" /\ ~Poisoned
           /\ \/ BuyResource(p, st, resource, amnt, u)
              \/ SellResource(p, st, resource, amnt, u))
             => LET station == stations[st]
                    stock == Stock(station.cargo, resource)
                    err == resp'.err
                IN /\ station.trader = None => err = "NoTraderAssigned"
                   /\ err # "ok" => /\ players'[p].money = players[p].money
                                    /\ stations'[st].cargo = station.cargo
                                    /\ prices' = prices
                   /\ (resp'.op = "buy_resource" /\ station.trader # None) =>
                         LET q == Min(amnt, CargoSpaceFor(station.cargo, resource))
                         IN /\ q = 0 => err = "BuyNothing"
                            /\ err = "ok" => resp'.val[1].removed_money = Some(Cost(q, prices[resource]))
                   /\ (resp'.op = "sell_resource" /\ station.trader # None) =>
                         LET q == Min(amnt, stock)
                             cost == Cost(q, prices[resource])
                             f == FeeRate(station.crew[station.trader[1]].rank)
                         IN /\ stock = 0 => err = "SellNothing"
                            /\ err = "ok" =>
                                  /\ players'[p].money
                                        = players[p].money + cost - MulDiv(cost, f, 10000)
                                  /\ Stock(stations'[st].cargo, resource) = stock - q]_vars

C28_ExtractionTable ==
    [][\A p \in PlayerIds, id \in ShipIds :
          (/\ cmds' = cmds + 1 /\ resp'.op = "start_extraction" /\ resp'.err = "ok"
           /\ resp'.player = p /\ id \in DOMAIN players[p].ships)
             => LET ship == players[p].ships[id]
                    planet == Planets[ship.position]
                    rates == players'[p].ships[id].state.rates
                    manned == {m \in DOMAIN ship.modules : ship.modules[m].operator # None}
                    OpRank(m) == ship.crew[ship.modules[m].operator[1]].rank
                IN /\ \A r \in DOMAIN rates :
                         /\ rates[r] > 0
                         /\ r \notin {"Fuel", "HullPlate"}
                         /\ ResourceDensity(planet, r) > 0
                         /\ \E m \in manned :
                               \/ /\ ship.modules[m].modtype = "Miner"
                                  /\ r = "Stone" \/ (r = "Iron" /\ OpRank(m) > 3)
                               \/ /\ ship.modules[m].modtype = "GasSucker"
                                  /\ r = "Helium" \/ (r = "Ozone" /\ OpRank(m) > 3)
                   /\ manned = {} => rates = EmptyMap
                   /\ (/\ planet.solid
                       /\ DOMAIN ship.modules = {1}
                       /\ ship.modules[1].modtype = "Miner"
                       /\ ship.modules[1].rank = 1
                       /\ manned = {1}
                       /\ OpRank(1) = 1) => DOMAIN rates = {"Stone"}]_vars

\* C28 witness: a ship with a Miner whose operator has rank 4 and a GasSucker
\* without operator extracts Stone and Iron, and nothing else, on the solid
\* planet.
C28_Witness ==
    /\ resp.op = "start_extraction"
    /\ resp.err = "ok"
    /\ 1 \in DOMAIN players
    /\ 1 \in DOMAIN players[1].ships
    /\ LET ship == players[1].ships[1]
       IN /\ ship.state.kind = "Extracting"
          /\ ship.position = PlanetX
          /\ DOMAIN ship.modules = {1, 2}
          /\ ship.modules[1].modtype = "Miner"
          /\ ship.modules[1].operator # None
          /\ ship.crew[ship.modules[1].operator[1]].rank = 4
          /\ ship.modules[2].modtype = "GasSucker"
          /\ ship.modules[2].operator = None
          /\ DOMAIN ship.state.rates = {"Stone", "Iron"}

\* C29: every quantity stored in the cargo of a ship or of a station is at
\* least 0, whatever the commands and the amounts they are given, zero and
\* negative amounts of unload, market buy and market sell included.
C29_QuantitiesNonNegative ==
    /\ \A p \in DOMAIN players : \A s \in DOMAIN players[p].ships :
          \A r \in DOMAIN players[p].ships[s].cargo.resources :
             players[p].ships[s].cargo.resources[r] >= 0
    /\ \A st \in DOMAIN stations : \A r \in DOMAIN stations[st].cargo.resources :
          stations[st].cargo.resources[r] >= 0

\* C30: every failure of a command is reported as an error value: no command
\* fails an assertion or an unwrap (Market::buy and Market::sell are called
\* with an amount and a price above 0 only), so that no handler ends
\* abnormally while it holds locks.
C30_NoPanic == resp.err # "panicked"

\* One tick on an extracting ship: each listed resource gains its rate, or
\* less once the cargo is full; the ship whose cargo is full after the tick is
\* Idle and one ExtractionStopped(id) was put in the queue of its player, the
\* other ships go on extracting and nothing was put in the queue for them.
C31_TickOnExtracting ==
    [][ExtractionTick =>
        \A p \in DOMAIN players : \A s \in DOMAIN players[p].ships :
            LET ship == players[p].ships[s]
                after == players'[p].ships[s]
                stopped == Event("ExtractionStopped", s)
            IN ship.state.kind = "Extracting" =>
                  /\ s \in DOMAIN players'[p].ships
                  /\ after.cargo.usage <= after.cargo.capacity
                  /\ \A r \in DOMAIN ship.state.rates :
                        /\ Stock(after.cargo, r) >= Stock(ship.cargo, r)
                        /\ Stock(after.cargo, r) <= Stock(ship.cargo, r) + ship.state.rates[r]
                        /\ after.cargo.usage < after.cargo.capacity =>
                              Stock(after.cargo, r) = Stock(ship.cargo, r) + ship.state.rates[r]
                  /\ IF after.cargo.usage = after.cargo.capacity
                     THEN /\ after.state = Idle
                          /\ Count(due'[p], stopped) = Count(due[p], stopped) + 1
                     ELSE /\ after.state = ship.state
                          /\ Count(due'[p], stopped) = Count(due[p], stopped)]_vars

\* A ship that extracts at a positive rate is in the end no longer extracting.
C31_EventuallyIdle ==
    \A p \in PlayerIds, s \in ShipIds :
        (p \in DOMAIN players /\ s \in DOMAIN players[p].ships
            /\ PositiveRate(players[p].ships[s]))
        ~> (p \in DOMAIN players /\ s \in DOMAIN players[p].ships
            /\ players[p].ships[s].state = Idle)

\* C31: on each tick the cargo of an extracting ship gains the rate of each
\* listed resource within its capacity; in the tick that fills the cargo the
\* ship becomes Idle and exactly one ExtractionStopped(id) is put in the
\* queue, so that no tick leaves a ship extracting on a full cargo; and under
\* a fair driver a ship that extracts at a positive rate becomes Idle.
C31_ExtractionTerminates == C31_TickOnExtracting /\ C31_EventuallyIdle

\* C31: a ship made Idle by the tick that filled its cargo, the event in the
\* queue of its player.
C31_Witness ==
    \E p \in DOMAIN players : \E s \in DOMAIN players[p].ships :
        /\ players[p].ships[s].state = Idle
        /\ players[p].ships[s].cargo.usage = players[p].ships[s].cargo.capacity
        /\ Count(due[p], Event("ExtractionStopped", s)) = 1
        /\ ticks = MaxTicks

\* The ids the events of the channel and the queues are for.
Targets == {PlayerIdOf(name) : name \in PlayerNames}

\* Number of events sent for player id: one GameStarted for each new_player
\* call that has replied Ok.
SentTo(id) ==
    Cardinality({i \in DOMAIN np_replies : np_replies[i].err = "ok" /\ np_replies[i].id = id})

\* Number of events of the channel that are for player id.
Pending(id) == Cardinality({i \in DOMAIN channel : channel[i].player = id})

\* The step moves the oldest event of the channel to the end of the queue of
\* its player, a new queue when the player had none, and leaves the other
\* queues alone.
MovesHead ==
    LET h == Head(channel)
    IN /\ channel' = Tail(channel)
       /\ DOMAIN fifo_events' = (DOMAIN fifo_events) \cup {h.player}
       /\ FifoContents(fifo_events'[h.player]) = ShadowPush(Visible(h.player), h.evt)
       /\ \A q \in DOMAIN fifo_events : q # h.player => fifo_events'[q] = fifo_events[q]

\* Every tick moves the oldest pending event, and that one only; a handler
\* adds its event at the end of the channel and touches no queue.
C32_ChannelIsQueue ==
    [][/\ DeliveryTick => IF channel = <<>> THEN UNCHANGED <<channel, fifo_events>>
                          ELSE MovesHead
       /\ ~DeliveryTick => /\ UNCHANGED fifo_events
                           /\ \/ UNCHANGED channel
                              \/ \E t \in Handlers :
                                    /\ np[t].pc = "insert"
                                    /\ channel' = Append(channel,
                                          [player |-> np[t].player[1].id,
                                           evt |-> Event("GameStarted", 0)])]_vars

\* Every event sent for a player is in the channel or in the queue of that
\* player, once.
C32_NoneLostNoneDuplicated ==
    \A id \in Targets : SentTo(id) = Pending(id) + Len(Visible(id))

\* Under a fair driver the events of the channel are delivered.
C32_EventuallyDelivered ==
    \A id \in Targets : (Pending(id) > 0) ~> (Pending(id) = 0 /\ Len(Visible(id)) = SentTo(id))

\* C32: each tick moves at most one pending event from the channel to the
\* queue of the player it is for, created on the first event; the events the
\* handlers send are delivered in the order sent, none lost or duplicated and
\* none to the queue of another player; and every event sent is delivered in
\* the end while the driver goes on.
C32_EventDelivery ==
    /\ C32_ChannelIsQueue
    /\ []C32_NoneLostNoneDuplicated
    /\ C32_EventuallyDelivered

\* C32: two players of different ids have each received their GameStarted,
\* which were together in the channel.
C32_Witness ==
    /\ channel = <<>>
    /\ \A id \in Targets : SentTo(id) = 1 /\ Visible(id) = <<Event("GameStarted", 0)>>
    /\ ticks = 2

\* C33: the lost check and the mutation of a handler are atomic with respect
\* to the driver: a handler whose player the driver has declared lost since
\* its check changes nothing of the game.
C33_LostCheckAtomic ==
    [][\A t \in Handlers, u \in PriceMoves :
          (/\ reqs[t].pc = "got_player"
           /\ players[reqs[t].player].lost
           /\ BuyResourceWrite(t, u))
             => UNCHANGED <<players, stations, prices>>]_vars

\* The wages of the crew of player p: the members of its stations, idle or
\* assigned, and those aboard its ships.
WagesDue(p) ==
    LET pl == players[p]
    IN SumOver([st \in pl.stations |->
                   SumWages(stations[st].crew) + SumWages(stations[st].idle_crew)],
               pl.stations)
       + SumOver([s \in DOMAIN pl.ships |-> SumWages(pl.ships[s].crew)], DOMAIN pl.ships)

\* C34: at every tick boundary the costs of a player are the sum of the wages
\* of the crew in its stations and aboard the ships it has: hire, rank-up,
\* assignment and ship destruction keep the equality.
C34_CostsAreWages ==
    \A p \in DOMAIN players : players[p].costs = WagesDue(p)

\* C35: a flight accepted by set_travel, the fuel and the hull left equal to
\* the cost included, on a ship no command changes in flight: no tick
\* destroys the ship or stops it short; the tick that ends the flight leaves
\* it Idle at the destination with ShipFlightFinished in the queue.
C35_AcceptedFlightSurvives ==
    [][\A p \in DOMAIN players : \A s \in DOMAIN players[p].ships :
          (/\ ticks' = ticks + 1
           /\ players[p].ships[s].state.kind = "InFlight")
             => /\ s \in DOMAIN players'[p].ships
                /\ players'[p].ships[s].state = Idle
                      => /\ players'[p].ships[s].position
                               = players[p].ships[s].state.data.destination
                         /\ Added(p, Event("ShipFlightFinished", s)) = 1]_vars

\* Every ship in flight has a pilot and a positive speed, and has not flown
\* more than the distance of its flight.
C36_InFlightShape ==
    \A p \in DOMAIN players : \A s \in DOMAIN players[p].ships :
        LET ship == players[p].ships[s]
        IN ship.state.kind = "InFlight" =>
              /\ ship.pilot # None
              /\ ship.stats.speed > 0
              /\ ship.state.data.dist_done <= ship.state.data.dist_tot

\* Every tick that leaves a ship in flight has added to the distance done.
C36_DistanceGrows ==
    [][FlightTick =>
        \A p \in DOMAIN players : \A s \in DOMAIN players[p].ships :
            (/\ players[p].ships[s].state.kind = "InFlight"
             /\ s \in DOMAIN players'[p].ships
             /\ players'[p].ships[s].state.kind = "InFlight")
               => players'[p].ships[s].state.data.dist_done
                     > players[p].ships[s].state.data.dist_done]_vars

\* Under a fair driver a ship in flight is in the end Idle or removed.
C36_FlightEnds ==
    \A p \in PlayerIds, s \in ShipIds :
        (p \in DOMAIN players /\ s \in DOMAIN players[p].ships
            /\ players[p].ships[s].state.kind = "InFlight")
        ~> (p \in DOMAIN players
            /\ (s \in DOMAIN players[p].ships => players[p].ships[s].state = Idle))

\* C36: every ship in flight has a pilot and a speed above 0; its dist_done
\* never exceeds dist_tot and grows on every tick until the flight ends; and
\* under a fair driver every ship in flight leaves the state InFlight, Idle
\* or removed from the roster.
C36_FlightLiveness ==
    /\ []C36_InFlightShape
    /\ C36_DistanceGrows
    /\ C36_FlightEnds

\* C36: a ship back to Idle at the far point, three ticks after it left.
C36_Witness ==
    \E p \in DOMAIN players : \E s \in DOMAIN players[p].ships :
        /\ players[p].ships[s].state = Idle
        /\ players[p].ships[s].position = StationX + 255
        /\ ticks = MaxTicks

\* The stations of player p at the position of its ship id.
DockedAt(p, id) ==
    {st \in players[p].stations : stations[st].position = players[p].ships[id].position}

\* C37: unload is accepted only for a ship at the coordinate of one of the
\* stations of the player, and refused with ShipNotInStation elsewhere; what
\* leaves the cargo of the ship is what the cargo of the station gains and is
\* the value returned, the part the station cannot hold being back on the
\* ship; the quantity of the resource over ship and station is unchanged.
C37_UnloadConserves ==
    [][\A p \in PlayerIds, id \in ShipIds, resource \in UnloadResources, amnt \in UnloadAmounts :
          (/\ resp'.op = "unload"
           /\ UnloadShipCargo(p, id, resource, amnt)
           /\ resource \in Resources
           /\ GetPlayerErr(p) = "ok"
           /\ ~Poisoned
           /\ id \in DOMAIN players[p].ships)
             => IF DockedAt(p, id) = {}
                THEN /\ resp'.err = "ShipNotInStation"
                     /\ UNCHANGED <<players, stations>>
                ELSE /\ resp'.err = "ok"
                     /\ \E st \in DockedAt(p, id) :
                           LET removed == Stock(players[p].ships[id].cargo, resource)
                                             - Stock(players'[p].ships[id].cargo, resource)
                               added == Stock(stations'[st].cargo, resource)
                                           - Stock(stations[st].cargo, resource)
                           IN /\ removed = added
                              /\ resp'.val = Some(added)
                              /\ \A o \in DOMAIN stations : o # st => stations'[o] = stations[o]]_vars

\* The commands that take money for a purchase.
PurchaseOps ==
    {"buy_ship", "buy_upgrade", "buy_module", "crew_upgrade", "upgrade_trader",
     "buy_resource"}

\* C38: no purchase command can make money negative: a purchase command that
\* lowers a player's money leaves it at 0 or more (a purchase whose cost
\* exceeds the money is rejected instead).
C38_PurchasesKeepMoney ==
    [][\A p \in DOMAIN players :
          (/\ resp'.op \in PurchaseOps
           /\ cmds' = cmds + 1
           /\ p \in DOMAIN players'
           /\ players'[p].money < players[p].money)
             => players'[p].money >= 0]_vars

\* C39: player isolation: a command made with the key handed to one player
\* leaves the record and the event FIFO of every other player created as they
\* are.
C39_PlayerIsolation ==
    [][\A key \in KeyDraws :
          (/\ resp'.op = "syslogs"
           /\ GetSyslogsWithKey(key)
           /\ \E i \in Created : np_replies[i].key = key)
             => \A i \in Created :
                   np_replies[i].key # key
                     => LET q == np_replies[i].id
                        IN /\ registry'[q] = registry[q]
                           /\ q \in DOMAIN fifo_events
                                 => fifo_events'[q] = fifo_events[q]]_vars

\* The commands on a station and a ship that need the ship docked.
DockOps ==
    {"refuel", "repair", "assign_pilot", "assign_operator", "buy_upgrade",
     "buy_module", "crew_upgrade"}

\* C40: docking is required: a command of DockOps on a station of the player
\* and a ship of the player whose position is not the station's is rejected
\* with ShipNotInStation and changes neither the player nor the station.
C40_DockingRequired ==
    [][\A p \in PlayerIds, st \in StationIds, id \in ShipIds :
          (/\ resp'.op \in DockOps
           /\ cmds' = cmds + 1
           /\ resp'.player = p
           /\ GetPlayerErr(p) = "ok"
           /\ ~Poisoned
           /\ GetStationErr(p, st) = "ok"
           /\ id \in DOMAIN players[p].ships
           /\ players[p].ships[id].position # stations[st].position)
             => /\ resp'.err = "ShipNotInStation"
                /\ UNCHANGED <<players, stations>>]_vars

====
